---- MODULE Spec2Model ----
(***************************************************************************)
(* The in-process cache layer of the social-diary application              *)
(* (src/app.go, src/footprints.go, src/unnamed/part_000 = entrycache.go):  *)
(*   UserRepo      full-table mirror of users with two secondary indexes   *)
(*   FriendRepo    undirected friendship graph                             *)
(*   EntryCache / CommentCache   bounded windows of the newest rows        *)
(*   FoopprintCache              per-user lazily filled footprint lists    *)
(* and the handlers that write the Store and then touch a cache.           *)
(*                                                                         *)
(* The caches share no state and no lock, so each is exercised by its own  *)
(* specification over the shared variables; the variables a specification  *)
(* does not use stay at their initial value.                               *)
(***************************************************************************)
EXTENDS Integers, Sequences, FiniteSets, TLC

VARIABLES
    clock,                \* time.Now() / CURRENT_TIMESTAMP, a logical clock
    lastOp,               \* the operation the last step belongs to, with its arguments
    entries2,             \* Store table entries2: a set of rows
    comments,             \* Store table comments: a set of rows
    nextEntryId,          \* AUTO_INCREMENT counter of entries2
    nextCommentId,        \* AUTO_INCREMENT counter of comments
    entryCache_Recent,    \* entryCache.Recent
    commentCache_Recent,  \* commentCache.Recent
    entryBase,            \* history: entryCache.Recent as the last Init left it
    entryLog,             \* history: the entries inserted since then, in order
    commentBase,          \* history: commentCache.Recent as the last Init left it
    commentLog,           \* history: the comments inserted since then, in order
    underTest,            \* SpecWindow: the window this behaviour drives
    relBase,              \* Store table relations: the rows with id <= 500000
    relNew,               \* Store table relations: the rows with id > 500000
    friend,               \* friendRepo.friend
    postFriends,          \* the PostFriends handler: where it is, and its arguments
    initFriends,          \* GetInitialize (relations, friendRepo.Init): where it is
    inserted,             \* history: the pairs {a, b}, a # b, Inserted since the last Reset
    footBase,             \* Store table footprints: the rows with id <= 500000
    footNew,              \* Store table footprints: the rows with id > 500000
    footCache,            \* footPrintCache.cache
    footLock,             \* footPrintCache's mutex: its holder, or "free"
    footProc,             \* the request handlers using footprints: where each is
    initFoot,             \* GetInitialize (footprints, footPrintCache.Reset)
    fpPending,            \* history: the last Invalidate no Get of its key has followed
    fpGets,               \* history, per key: has a Get returned since then (0, 1)
    fpFetches,            \* history, per key: Store fetches since then (0, 1, many)
    fpFetched,            \* history, per key: what the last of these fetches returned
    fpOld,                \* history, per key: the handlers whose visit to the key was
                          \* written after the key's list (cached, or fetched and
                          \* about to be cached) was fetched
    visits,               \* number of footprints written so far
    usersTable,           \* Store table users: a set of rows
    userRepo,             \* userRepo: its three maps
    appProc,              \* the PostComment handlers: where each is, and its locals
    initApp,              \* GetInitialize (entries2, comments, the two windows)
    profiles,             \* Store table profiles: the row of each user
    profileRepo,          \* profileRepo.profiles
    profLock,             \* profileRepo's mutex: "free", or "init" while Init runs
    profProc,             \* the PostProfile handlers: where each is, and its locals
    initProfile,          \* profileRepo.Init(): where it is, and how the last one ended
    userLock,             \* userRepo's RWMutex: "free", or "init" (Init's write lock)
    initUser,             \* userRepo.Init(): where it is, and the rows still to read
    heap,                 \* the backing arrays some slice still points into
    recentHdr,            \* cc.Recent as a slice header: array, offset, len, cap
    snap,                 \* per reader: the slice a Get returned to it, and what it held then
    sliceNext,            \* the next item that goes into the window
    indexUser,            \* GetIndex: user.ID
    recentEntries,        \* GetIndex: recentEntries, the snapshot entryCache.Get() returned
    cc,                   \* GetIndex: cc, the snapshot commentCache.Get() returned
    entriesOfFriends,     \* GetIndex: entriesOfFriends
    commentsOfFriends,    \* GetIndex: commentsOfFriends
    getIndex,             \* GetIndex: where the handler is, and its loop index i
    mutex,                \* the lock of each cache: its writer and its readers
    call,                 \* the cache call each handler is in: the operation, its segment, its position
    exited,               \* log.Fatal has ended the process
    page                  \* the page request: its position, the rows still to scan and the slice fetchFootprint is building

windowVars == <<entries2, comments, nextEntryId, nextCommentId,
                entryCache_Recent, commentCache_Recent,
                entryBase, entryLog, commentBase, commentLog, underTest>>

friendVars == <<relBase, relNew, friend, postFriends, initFriends, inserted>>

footVars == <<footBase, footNew, footCache, footLock, footProc, initFoot,
              fpPending, fpGets, fpFetches, fpFetched, fpOld, visits>>

userVars == <<usersTable, userRepo, userLock, initUser>>

appVars == <<appProc, initApp>>

profileVars == <<profiles, profileRepo, profLock, profProc, initProfile>>

sliceVars == <<heap, recentHdr, snap, sliceNext>>

indexVars == <<indexUser, recentEntries, cc, entriesOfFriends, commentsOfFriends, getIndex>>

lockVars == <<mutex, call, exited>>

pageVars == <<page>>

vars == <<clock, lastOp, windowVars, friendVars, footVars, userVars, appVars, profileVars, sliceVars, indexVars, lockVars, pageVars>>

(***************************************************************************)
(* Bounds of the model.                                                    *)
(***************************************************************************)
\* Capacity of a recency window; stands for the literal 1000 of
\* CommentCache.Insert / EntryCache.Insert / LIMIT 1000.
WindowCap == 2
\* Largest value of the logical clock.
MaxClock == 1

\* Number of users; user ids are 1..NumUsers.
NumUsers == 2

Users == 1..NumUsers

\* Ids a table's AUTO_INCREMENT counter hands out: enough to overflow a window
\* loaded to capacity, twice.
MaxIds == WindowCap + 2

(***************************************************************************)
(* Helpers.                                                                *)
(***************************************************************************)
Range(s) == {s[i] : i \in 1..Len(s)}

Min(a, b) == IF a <= b THEN a ELSE b

Last(s) == s[Len(s)]

NoOp == [op |-> "none"]

\* A handler that is not inside a request.
Idle == [pc |-> "idle"]

\* time.Now() advances on its own.
Tick ==
    /\ clock < MaxClock
    /\ clock' = clock + 1
    /\ lastOp' = [op |-> "Tick"]

(***************************************************************************)
(* The Store's answer to  SELECT ... ORDER BY created_at DESC LIMIT n :    *)
(* the n newest rows, newest first.  created_at has a coarse resolution,   *)
(* so rows may tie, and SQL leaves the order (and, at the LIMIT, the       *)
(* choice) of tied rows open: every answer consistent with the ordering is *)
(* possible.                                                               *)
(***************************************************************************)
QueryRecentBy(At(_), table, limit) ==
    LET n == Min(limit, Cardinality(table))
    IN  {r \in [1..n -> table] :
            /\ \A i, j \in 1..n : i < j =>
                  /\ r[i] # r[j]
                  /\ At(r[i]) >= At(r[j])
            /\ \A x \in table \ Range(r) : \A i \in 1..n :
                  At(x) <= At(r[i])}

QueryRecent(table, limit) == QueryRecentBy(LAMBDA r : r.CreatedAt, table, limit)

(***************************************************************************)
(* RecencyWindow: EntryCache (part_000) and CommentCache (app.go).         *)
(* Every method takes the cache's mutex for its whole body, and Init       *)
(* issues a single query, so each method is one atomic step.               *)
(***************************************************************************)
\* for i := 0; i < len/2; i++ { s[i], s[len-1-i] = s[len-1-i], s[i] }
RECURSIVE SwapLoop(_, _)
SwapLoop(s, i) ==
    IF i < Len(s) \div 2
    THEN SwapLoop([s EXCEPT ![i + 1] = s[Len(s) - i],
                            ![Len(s) - i] = s[i + 1]], i + 1)
    ELSE s

\* Mutant of ReverseInPlace: the loop is missing.
ReverseInPlace_None(s) == s

ReverseInPlace(s) == SwapLoop(s, 0)

\* Mutant of EntryAppendTrim: the length test is missing.
EntryAppendTrim_NoTrim(recent, e) == Append(recent, e)

\* Mutant of EntryAppendTrim: the prefix is kept instead of the suffix, so the
\* newest element is dropped, not the oldest.
EntryAppendTrim_KeepFront(recent, e) ==
    LET a == Append(recent, e)
    IN  IF Len(a) > WindowCap THEN SubSeq(a, 1, WindowCap) ELSE a

\* cc.Recent = append(cc.Recent, e)
\* if len(cc.Recent) > 1000 { cc.Recent = cc.Recent[len(cc.Recent)-1000:] }
EntryAppendTrim(recent, e) ==
    LET a == Append(recent, e)
    IN  IF Len(a) > WindowCap
        THEN SubSeq(a, Len(a) - WindowCap + 1, Len(a))
        ELSE a

\* Mutant of CommentAppendTrim: the item is put at the front.
CommentAppendTrim_Prepend(recent, c) ==
    LET a == <<c>> \o recent
    IN  IF Len(a) > WindowCap
        THEN SubSeq(a, Len(a) - WindowCap + 1, Len(a))
        ELSE a

CommentAppendTrim(recent, c) ==
    LET a == Append(recent, c)
    IN  IF Len(a) > WindowCap
        THEN SubSeq(a, Len(a) - WindowCap + 1, Len(a))
        ELSE a

\* Store environment: a row appears in entries2 / comments.
EntryRow(id, t) == [ID |-> id, CreatedAt |-> t]
CommentRow(id, t) == [ID |-> id, CreatedAt |-> t]

StoreInsertEntry ==
    /\ nextEntryId <= MaxIds
    /\ entries2' = entries2 \cup {EntryRow(nextEntryId, clock)}
    /\ nextEntryId' = nextEntryId + 1
    /\ lastOp' = [op |-> "StoreInsertEntry"]
    /\ UNCHANGED <<clock, comments, nextCommentId, entryCache_Recent,
                   commentCache_Recent, entryBase, entryLog, commentBase, commentLog, underTest>>

StoreInsertComment ==
    /\ nextCommentId <= MaxIds
    /\ comments' = comments \cup {CommentRow(nextCommentId, clock)}
    /\ nextCommentId' = nextCommentId + 1
    /\ lastOp' = [op |-> "StoreInsertComment"]
    /\ UNCHANGED <<clock, entries2, nextEntryId, entryCache_Recent,
                   commentCache_Recent, entryBase, entryLog, commentBase, commentLog,
                   underTest>>

\* func (cc *EntryCache) Init()
EntryCache_Init ==
    /\ \E rows \in QueryRecent(entries2, WindowCap) :
          entryCache_Recent' = ReverseInPlace(rows)
    /\ entryBase' = entryCache_Recent'
    /\ entryLog' = <<>>
    /\ lastOp' = [op |-> "EntryCache.Init"]
    /\ UNCHANGED <<clock, entries2, comments, nextEntryId, nextCommentId,
                   commentCache_Recent, commentBase, commentLog, underTest>>

\* func (cc *CommentCache) Init()
CommentCache_Init ==
    /\ \E rows \in QueryRecent(comments, WindowCap) :
          commentCache_Recent' = ReverseInPlace(rows)
    /\ commentBase' = commentCache_Recent'
    /\ commentLog' = <<>>
    /\ lastOp' = [op |-> "CommentCache.Init"]
    /\ UNCHANGED <<clock, entries2, comments, nextEntryId, nextCommentId,
                   entryCache_Recent, entryBase, entryLog, underTest>>

\* func (cc *EntryCache) Insert(e Entry), called with a new item.
EntryCache_Insert ==
    /\ nextEntryId <= MaxIds
    /\ LET e == EntryRow(nextEntryId, clock)
       IN  /\ entryCache_Recent' = EntryAppendTrim(entryCache_Recent, e)
           /\ entryLog' = Append(entryLog, e)
           /\ lastOp' = [op |-> "EntryCache.Insert", item |-> e]
    /\ nextEntryId' = nextEntryId + 1
    /\ UNCHANGED <<clock, entries2, comments, nextCommentId,
                   commentCache_Recent, entryBase, commentBase, commentLog, underTest>>

\* func (cc *CommentCache) Insert(c Comment), called with a new item.
CommentCache_Insert ==
    /\ nextCommentId <= MaxIds
    /\ LET c == CommentRow(nextCommentId, clock)
       IN  /\ commentCache_Recent' = CommentAppendTrim(commentCache_Recent, c)
           /\ commentLog' = Append(commentLog, c)
           /\ lastOp' = [op |-> "CommentCache.Insert", item |-> c]
    /\ nextCommentId' = nextCommentId + 1
    /\ UNCHANGED <<clock, entries2, comments, nextEntryId,
                   entryCache_Recent, entryBase, entryLog, commentBase, underTest>>

\* func (cc *EntryCache) Get() / func (cc *CommentCache) Get()
EntryCache_Get == entryCache_Recent
CommentCache_Get == commentCache_Recent

WindowIdle ==
    /\ entries2 = {}
    /\ comments = {}
    /\ nextEntryId = 1
    /\ nextCommentId = 1
    /\ entryCache_Recent = <<>>
    /\ commentCache_Recent = <<>>
    /\ entryBase = <<>>
    /\ entryLog = <<>>
    /\ commentBase = <<>>
    /\ commentLog = <<>>

(***************************************************************************)
(* FoopprintCache (footprints.go, the file the Makefile builds; part_001   *)
(* is an earlier copy whose cache and markFootprint differ only in the SQL).*)
(* footCache is a function from the keys present in the map to the cached  *)
(* list.  Get holds the mutex from its first line to its return (defer     *)
(* Unlock), the Store fetch of a miss included, so a miss takes two steps  *)
(* with the mutex held between them.                                       *)
(***************************************************************************)
\* Number of footprints Get asks the Store for; stands for the literal 50.
FootLimit == 2

\* Number of footprints the handlers write in a behaviour.
MaxVisits == 1

FootProcs == {"h1", "h2"}

EmptyMap == [k \in {} |-> <<>>]
MapPut(m, k, v) == [x \in DOMAIN m \cup {k} |-> IF x = k THEN v ELSE m[x]]
MapDelete(m, k) == [x \in DOMAIN m \ {k} |-> m[x]]

\* The `date` column keeps the day of `now`.
Day(t) == t \div 2

Footprints == footBase \cup footNew

\* replace INTO footprints (user_id,owner_id,date,created_at) VALUES (id, visitor, now, now)
\* with (user_id, owner_id, date) as the table's unique key: the row of the same
\* key, if any, is deleted and the new row inserted (with a new id).
ReplacedBy(row, table) ==
    {r \in table : /\ r.user_id = row.user_id
                   /\ r.owner_id = row.owner_id
                   /\ r.date = row.date}

FootRow(id, visitor, now) ==
    [user_id |-> id, owner_id |-> visitor, date |-> Day(now), created_at |-> now]

\* rows.Scan(&fp.UserID, &fp.OwnerID, &fp.CreatedAt, &fp.UpdatedAt)
Scan(r) == [UserID |-> r.user_id, OwnerID |-> r.owner_id,
            CreatedAt |-> r.date, UpdatedAt |-> r.created_at]

\* func fetchFootprint(userID, limit int) []Footprint: the possible results.
fetchFootprint(userID, limit) ==
    LET mine == {r \in Footprints : r.user_id = userID}
        answers == QueryRecentBy(LAMBDA r : r.created_at, mine, limit)
    IN  {[i \in 1..Len(rows) |-> Scan(rows[i])] : rows \in answers}

\* Mutant of CacheHit: an empty cached list counts as a miss.
CacheHit_NonEmpty(cache, userID) ==
    userID \in DOMAIN cache /\ cache[userID] # <<>>

\* if fps, ok := c.cache[userID]; ok {
CacheHit(cache, userID) == userID \in DOMAIN cache

\* Mutant of FootInvalidate: nothing is deleted.
FootInvalidate_Keep(cache, userID) == cache

\* delete(c.cache, userID)
FootInvalidate(cache, userID) == MapDelete(cache, userID)

\* Mutant of InvalidatedKey: the visitor's entry is invalidated.
InvalidatedKey_Visitor(visitor, id) == visitor

\* footPrintCache.Invalidate(id): the key markFootprint(visitor, id) invalidates.
InvalidatedKey(visitor, id) == id

\* Mutant of MayLock: the mutex excludes nobody.
MayLock_Always(lock) == TRUE

\* c.Lock(): the caller goes on when nobody holds the mutex.
MayLock(lock) == lock = "free"

\* The keys for which some Get holds a fetched list it has not stored yet.
InFlight == {footProc[q].key : q \in {r \in FootProcs : footProc[r].pc = "store"}}

\* History: the keys' entries have been deleted; the visits written since a list
\* of a key was fetched are forgotten with the list.
Forget(keys) ==
    fpOld' = [k \in Users |-> IF k \in keys /\ k \notin InFlight THEN {} ELSE fpOld[k]]

\* The history counters stop at "many" (2).
Bump(n) == IF n < 2 THEN n + 1 ELSE n

\* History: the keys' entries have been emptied; the counts start again.
NewEpoch(keys) ==
    /\ fpGets' = [k \in Users |-> IF k \in keys THEN 0 ELSE fpGets[k]]
    /\ fpFetches' = [k \in Users |-> IF k \in keys THEN 0 ELSE fpFetches[k]]
    /\ fpFetched' = [k \in Users |-> IF k \in keys THEN "none" ELSE fpFetched[k]]

NoPending == [key |-> 0, wasCached |-> FALSE]

\* History: a Get of userID returns; was it the first after an Invalidate(userID)?
Served(userID) == IF fpPending.key = userID THEN NoPending ELSE fpPending
AfterInvalidate(userID) ==
    IF fpPending.key # userID THEN "no"
    ELSE IF fpPending.wasCached THEN "of a cached key" ELSE "of an absent key"

\* func (c *FoopprintCache) Get(userID int): c.Lock(); defer c.Unlock();
\* on a hit, return the cached list; on a miss, go on to the fetch.
FoopprintCache_Get(p, userID) ==
    /\ footProc[p].pc = "idle"
    /\ MayLock(footLock)
    /\ IF CacheHit(footCache, userID)
       THEN /\ lastOp' = [op |-> "FoopprintCache.Get", key |-> userID,
                          result |-> footCache[userID], fetched |-> FALSE,
                          afterInvalidate |-> AfterInvalidate(userID)]
            /\ fpGets' = [fpGets EXCEPT ![userID] = 1]
            /\ fpPending' = Served(userID)
            /\ UNCHANGED <<footLock, footProc>>
       ELSE /\ footLock' = p
            /\ footProc' = [footProc EXCEPT ![p] = [pc |-> "fetch", key |-> userID]]
            /\ lastOp' = [op |-> "FoopprintCache.Get.Miss"]
            /\ UNCHANGED <<fpGets, fpPending>>
    /\ UNCHANGED <<clock, footBase, footNew, footCache, initFoot,
                   fpFetches, fpFetched, fpOld, visits>>

\* fps := fetchFootprint(userID, 50), with the mutex held
FoopprintCache_Get_Fetch(p) ==
    /\ footProc[p].pc = "fetch"
    /\ footLock = p
    /\ LET userID == footProc[p].key
       IN  \E fps \in fetchFootprint(userID, FootLimit) :
              /\ footProc' = [footProc EXCEPT
                                ![p] = [pc |-> "store", key |-> userID, fps |-> fps]]
              /\ fpFetches' = [fpFetches EXCEPT ![userID] = Bump(@)]
              /\ fpFetched' = [fpFetched EXCEPT ![userID] = fps]
              /\ fpOld' = [fpOld EXCEPT ![userID] = {}]
    /\ lastOp' = [op |-> "FoopprintCache.Get.Fetch", p |-> p]
    /\ UNCHANGED <<clock, footBase, footNew, footCache, footLock, initFoot,
                   fpPending, fpGets, visits>>

\* c.cache[userID] = fps; return fps (and the deferred c.Unlock())
FoopprintCache_Get_Store(p) ==
    /\ footProc[p].pc = "store"
    /\ footLock = p
    /\ LET userID == footProc[p].key
           fps == footProc[p].fps
       IN  /\ footCache' = MapPut(footCache, userID, fps)
           /\ lastOp' = [op |-> "FoopprintCache.Get", key |-> userID,
                         result |-> fps, fetched |-> TRUE,
                         afterInvalidate |-> AfterInvalidate(userID)]
           /\ fpPending' = Served(userID)
           /\ fpGets' = [fpGets EXCEPT ![userID] = 1]
    /\ footLock' = "free"
    /\ footProc' = [footProc EXCEPT ![p] = Idle]
    /\ UNCHANGED <<clock, footBase, footNew, initFoot, fpFetches, fpFetched,
                   fpOld, visits>>

\* func markFootprint(visitor, id int): if visitor != id { db.Exec(`replace INTO ...`)
markFootprint(p, visitor, id) ==
    /\ footProc[p].pc = "idle"
    /\ IF visitor # id
       THEN LET row == FootRow(id, visitor, clock)
            IN  /\ visits < MaxVisits
                /\ visits' = visits + 1
                /\ footBase' = footBase \ ReplacedBy(row, footBase)
                /\ footNew' = (footNew \ ReplacedBy(row, footNew)) \cup {row}
                /\ footProc' = [footProc EXCEPT
                                  ![p] = [pc |-> "marked", visitor |-> visitor, id |-> id]]
                /\ fpOld' = IF id \in DOMAIN footCache \/ id \in InFlight
                            THEN [fpOld EXCEPT ![id] = @ \cup {p}]
                            ELSE fpOld
                /\ lastOp' = [op |-> "markFootprint.Exec", p |-> p]
       ELSE /\ lastOp' = [op |-> "markFootprint.Self"]
            /\ UNCHANGED <<footBase, footNew, footProc, fpOld, visits>>
    /\ UNCHANGED <<clock, footCache, footLock, initFoot,
                   fpPending, fpGets, fpFetches, fpFetched>>

\* markFootprint: footPrintCache.Invalidate(id)
\* func (c *FoopprintCache) Invalidate(userID int)
markFootprint_Invalidate(p) ==
    /\ footProc[p].pc = "marked"
    /\ MayLock(footLock)
    /\ LET userID == InvalidatedKey(footProc[p].visitor, footProc[p].id)
       IN  /\ footCache' = FootInvalidate(footCache, userID)
           /\ NewEpoch({userID})
           /\ Forget(Users \ DOMAIN footCache')
           /\ fpPending' = [key |-> userID, wasCached |-> userID \in DOMAIN footCache]
           /\ lastOp' = [op |-> "markFootprint.Invalidate", p |-> p]
    /\ footProc' = [footProc EXCEPT ![p] = Idle]
    /\ UNCHANGED <<clock, footBase, footNew, footLock, initFoot, visits>>

\* GetInitialize: db.Exec("DELETE FROM footprints WHERE id > 500000")
GetInitialize_DeleteFootprints ==
    /\ initFoot = "idle"
    /\ footNew' = {}
    /\ initFoot' = "reset"
    /\ lastOp' = [op |-> "GetInitialize"]
    /\ UNCHANGED <<clock, footBase, footCache, footLock, footProc,
                   fpPending, fpGets, fpFetches, fpFetched, fpOld, visits>>

\* GetInitialize: footPrintCache.Reset()
\* func (c *FoopprintCache) Reset()
FoopprintCache_Reset ==
    /\ initFoot = "reset"
    /\ MayLock(footLock)
    /\ footCache' = EmptyMap
    /\ NewEpoch(Users)
    /\ Forget(Users)
    /\ fpPending' = NoPending
    /\ initFoot' = "idle"
    /\ lastOp' = [op |-> "FoopprintCache.Reset"]
    /\ UNCHANGED <<clock, footBase, footNew, footLock, footProc, visits>>

\* The values the footprint variables keep in a specification that does not use
\* them; also the state at startup, with an empty footprints table.
FootIdle ==
    /\ footBase = {}
    /\ footNew = {}
    /\ footCache = EmptyMap
    /\ footLock = "free"
    /\ footProc = [p \in FootProcs |-> Idle]
    /\ initFoot = "idle"
    /\ fpPending = NoPending
    /\ fpGets = [k \in Users |-> 0]
    /\ fpFetches = [k \in Users |-> 0]
    /\ fpFetched = [k \in Users |-> "none"]
    /\ fpOld = [k \in Users |-> {}]
    /\ visits = 0

(***************************************************************************)
(* UserRepo (app.go): users mirrored whole, map[int]*User, and two         *)
(* secondary indexes map[string]int.  A Go map read of an absent key gives *)
(* the zero value of the element type: 0 for int, nil for *User.           *)
(***************************************************************************)
\* The values the id column of users may hold.
UserIds == 0..NumUsers

Mails == {"alice@x", "bob@x", "carol@x"}
Accounts == {"alice", "bob", "carol"}

UserRow(id, account, email) == [ID |-> id, AccountName |-> account, Email |-> email]

\* nil of type *User
NilUser == [ID |-> -1, AccountName |-> "", Email |-> ""]

\* m[k] for a map[...]int and for a map[int]*User
MapGetInt(m, k) == IF k \in DOMAIN m THEN m[k] ELSE 0
MapGetUser(m, k) == IF k \in DOMAIN m THEN m[k] ELSE NilUser

\* The maps Init makes before it reads the table.
EmptyRepo == [users |-> EmptyMap, byMail |-> EmptyMap, byAccount |-> EmptyMap]

\* for rows.Next() { r.users[u.ID] = &u; r.byMail[u.Email] = u.ID;
\*                   r.byAccount[u.AccountName] = u.ID }
RECURSIVE LoadUsers(_, _)
LoadUsers(repo, rows) ==
    IF rows = {}
    THEN repo
    ELSE LET u == CHOOSE r \in rows : TRUE
         IN  LoadUsers([users |-> MapPut(repo.users, u.ID, u),
                        byMail |-> MapPut(repo.byMail, u.Email, u.ID),
                        byAccount |-> MapPut(repo.byAccount, u.AccountName, u.ID)],
                       rows \ {u})

\* func (r *UserRepo) Get(id int) *User
UserRepo_Get(id) == MapGetUser(userRepo.users, id)

\* func (r *UserRepo) GetByMail(email string) *User
UserRepo_GetByMail(email) ==
    LET uid == MapGetInt(userRepo.byMail, email)
    IN  IF uid # 0 THEN MapGetUser(userRepo.users, uid) ELSE NilUser

\* func (r *UserRepo) GetByAccount(account string) *User
UserRepo_GetByAccount(account) ==
    LET uid == MapGetInt(userRepo.byAccount, account)
    IN  IF uid # 0 THEN MapGetUser(userRepo.users, uid) ELSE NilUser

\* Mutant of MayRLock: a reader does not wait for the writer.
MayRLock_Always(lock) == TRUE

\* r.RLock(): a reader enters unless a writer holds the lock.
MayRLock(lock) == lock = "free"

\* func (r *UserRepo) Init(): r.Lock(); the three maps are made anew;
\* rows, err := db.Query(`SELECT id, account_name, nick_name, email FROM users`)
UserRepo_Init ==
    /\ userLock = "free"
    /\ initUser = Idle
    /\ userLock' = "init"
    /\ userRepo' = EmptyRepo
    /\ initUser' = [pc |-> "rows", rows |-> usersTable]
    /\ lastOp' = [op |-> "UserRepo.Init"]
    /\ UNCHANGED <<clock, usersTable>>

\* for rows.Next() { ...; r.users[u.ID] = &u; r.byMail[u.Email] = u.ID;
\*                   r.byAccount[u.AccountName] = u.ID }
\* The query has no ORDER BY: the rows come in any order.
UserRepo_Init_Row ==
    /\ initUser.pc = "rows"
    /\ \E u \in initUser.rows :
          /\ userRepo' = LoadUsers(userRepo, {u})
          /\ initUser' = [initUser EXCEPT !.rows = @ \ {u}]
    /\ lastOp' = [op |-> "UserRepo.Init.Row"]
    /\ UNCHANGED <<clock, usersTable, userLock>>

\* rows.Close(); the deferred r.Unlock()
UserRepo_Init_Unlock ==
    /\ initUser.pc = "rows"
    /\ initUser.rows = {}
    /\ userLock' = "free"
    /\ initUser' = Idle
    /\ lastOp' = [op |-> "UserRepo.Init.Unlock"]
    /\ UNCHANGED <<clock, usersTable, userRepo>>

\* func getUser(userID int) *User
getUser(userID) ==
    /\ MayRLock(userLock)
    /\ lastOp' = [op |-> "UserRepo.Get", id |-> userID,
                  result |-> UserRepo_Get(userID)]
    /\ UNCHANGED <<clock, userVars>>

\* func authenticate(w, r, email, passwd): its lookup
authenticate(email) ==
    /\ MayRLock(userLock)
    /\ lastOp' = [op |-> "UserRepo.GetByMail", email |-> email,
                  result |-> UserRepo_GetByMail(email)]
    /\ UNCHANGED <<clock, userVars>>

\* func getUserFromAccount(w, name string) *User
getUserFromAccount(name) ==
    /\ MayRLock(userLock)
    /\ lastOp' = [op |-> "UserRepo.GetByAccount", account |-> name,
                  result |-> UserRepo_GetByAccount(name)]
    /\ UNCHANGED <<clock, userVars>>

UserIdle ==
    /\ usersTable = {}
    /\ userRepo = EmptyRepo
    /\ userLock = "free"
    /\ initUser = Idle

(***************************************************************************)
(* ProfileRepo (app.go): profiles mirrored whole, map[int]*Profile, behind *)
(* a Mutex.  Get and Update are one map access under the lock; Init holds  *)
(* the lock from its first line to its return (defer Unlock) while it      *)
(* reads the table.  PostProfile writes the Store, reads the row back and  *)
(* hands it to Update, with no lock around the three.                      *)
(***************************************************************************)
Prefs == {"Tokyo", "Osaka"}

ProfProcs == {"h1", "h2"}

\* A row of profiles, and the Profile scanned from it.
ProfileRow(id, pref, t) == [UserID |-> id, Pref |-> pref, UpdatedAt |-> t]

\* nil of type *Profile
NilProfile == [UserID |-> -1, Pref |-> "", UpdatedAt |-> -1]

\* r.profiles[id]
MapGetProfile(m, k) == IF k \in DOMAIN m THEN m[k] ELSE NilProfile

\* initProfile when no Init is running: how the last Init ended.
InitEnded(failed) == [pc |-> "idle", failed |-> failed]

\* func (r *ProfileRepo) Get(id int) *Profile, called by GetIndex and GetProfile
ProfileRepo_Get(id) ==
    /\ profLock = "free"
    /\ lastOp' = [op |-> "ProfileRepo.Get", id |-> id,
                  result |-> MapGetProfile(profileRepo, id)]
    /\ UNCHANGED <<clock, profileVars>>

\* func PostProfile: UPDATE profiles SET ..., updated_at=CURRENT_TIMESTAMP()
\*                   WHERE user_id = ?
PostProfile_Exec(p, id, pref) ==
    /\ profProc[p] = Idle
    /\ profiles' = [profiles EXCEPT ![id] = ProfileRow(id, pref, clock)]
    /\ profProc' = [profProc EXCEPT ![p] = [pc |-> "select", id |-> id]]
    /\ lastOp' = [op |-> "PostProfile.Exec"]
    /\ UNCHANGED <<clock, profileRepo, profLock, initProfile>>

\* row := db.QueryRow("SELECT * FROM profiles WHERE user_id=?", user.ID); row.Scan(...)
PostProfile_Select(p) ==
    /\ profProc[p].pc = "select"
    /\ profProc' = [profProc EXCEPT
                      ![p] = [pc |-> "update", id |-> profProc[p].id,
                              prof |-> profiles[profProc[p].id]]]
    /\ lastOp' = [op |-> "PostProfile.Select"]
    /\ UNCHANGED <<clock, profiles, profileRepo, profLock, initProfile>>

\* profileRepo.Update(user.ID, &prof); the handler returns and serves no more
\* request in this behaviour.
\* func (r *ProfileRepo) Update(id int, prof *Profile)
PostProfile_Update(p) ==
    /\ profProc[p].pc = "update"
    /\ profLock = "free"
    /\ profileRepo' = MapPut(profileRepo, profProc[p].id, profProc[p].prof)
    /\ profProc' = [profProc EXCEPT ![p] = [pc |-> "done"]]
    /\ lastOp' = [op |-> "PostProfile", id |-> profProc[p].id]
    /\ UNCHANGED <<clock, profiles, profLock, initProfile>>

\* func (r *ProfileRepo) Init(): r.Lock(); r.profiles = make(...);
\* rows, err := db.Query(`SELECT * FROM profiles`) succeeds.
ProfileRepo_Init ==
    /\ initProfile.pc = "idle"
    /\ profLock = "free"
    /\ profLock' = "init"
    /\ profileRepo' = EmptyMap
    /\ initProfile' = [pc |-> "rows", rows |-> {profiles[u] : u \in DOMAIN profiles}]
    /\ lastOp' = [op |-> "ProfileRepo.Init"]
    /\ UNCHANGED <<clock, profiles, profProc>>

\* for rows.Next() { ...; r.profiles[prof.UserID] = &prof }, in any order
ProfileRepo_Init_Row ==
    /\ initProfile.pc = "rows"
    /\ \E prof \in initProfile.rows :
          /\ profileRepo' = MapPut(profileRepo, prof.UserID, prof)
          /\ initProfile' = [initProfile EXCEPT !.rows = @ \ {prof}]
    /\ lastOp' = [op |-> "ProfileRepo.Init.Row"]
    /\ UNCHANGED <<clock, profiles, profLock, profProc>>

\* rows.Close(); the deferred r.Unlock()
ProfileRepo_Init_Unlock ==
    /\ initProfile.pc = "rows"
    /\ initProfile.rows = {}
    /\ profLock' = "free"
    /\ initProfile' = InitEnded(FALSE)
    /\ lastOp' = [op |-> "ProfileRepo.Init.Unlock"]
    /\ UNCHANGED <<clock, profiles, profileRepo, profProc>>

\* A failing Store.  profileRepo.Init() inside GetInitialize:
\* r.Lock(); r.profiles = make(...); db.Query returns an error; panic(err).
\* The deferred r.Unlock() runs, net/http recovers the handler's panic, and
\* the server goes on serving.
ProfileRepo_Init_QueryError ==
    /\ initProfile.pc = "idle"
    /\ profLock = "free"
    /\ profileRepo' = EmptyMap
    /\ initProfile' = InitEnded(TRUE)
    /\ lastOp' = [op |-> "ProfileRepo.Init.panic"]
    /\ UNCHANGED <<clock, profiles, profLock, profProc>>

\* rows.Scan returns an error on some row; panic(err), with the rows read so
\* far in the map.
ProfileRepo_Init_ScanError ==
    /\ initProfile.pc = "rows"
    /\ initProfile.rows # {}
    /\ profLock' = "free"
    /\ initProfile' = InitEnded(TRUE)
    /\ lastOp' = [op |-> "ProfileRepo.Init.panic"]
    /\ UNCHANGED <<clock, profiles, profileRepo, profProc>>

ProfileIdle ==
    /\ profiles = EmptyMap
    /\ profileRepo = EmptyMap
    /\ profLock = "free"
    /\ profProc = [p \in ProfProcs |-> Idle]
    /\ initProfile = InitEnded(FALSE)

(***************************************************************************)
(* The windows again, at the level of Go slices (CommentCache in app.go,   *)
(* EntryCache in part_000: the same code).  cc.Recent is a slice header    *)
(* over a backing array; append writes into the array when len < cap and   *)
(* moves to a new, larger array otherwise; cc.Recent[len-1000:] is a new   *)
(* header on the same array; Get returns the header, not a copy.           *)
(***************************************************************************)
SliceReaders == {"r1", "r2"}

\* Items that go into the window in a behaviour.
MaxItems == WindowCap + 3

\* The value of an array cell nothing was stored in.
ZeroItem == 0

\* s[i] for i in 0..len-1, read through a header.
View(h, hdr) == [i \in 1..hdr.len |-> h[hdr.arr][hdr.off + i]]

\* The address of a newly allocated array: one no live array has.
NewArray(h) == CHOOSE a \in 1..(Cardinality(DOMAIN h) + 1) : a \notin DOMAIN h

\* make([]T, 0, n) followed by the appends of Init: a new array holding `items`.
MakeSlice(h, n, items) ==
    LET a == NewArray(h)
        cells == [i \in 1..n |-> IF i <= Len(items) THEN items[i] ELSE ZeroItem]
    IN  [heap |-> [x \in DOMAIN h \cup {a} |-> IF x = a THEN cells ELSE h[x]],
         hdr |-> [arr |-> a, off |-> 0, len |-> Len(items), cap |-> n]]

\* The capacities the runtime may give the array append moves to: just the
\* length needed, or room to spare (twice the old capacity).
GrowCaps(oldcap, needed) ==
    {needed, IF 2 * oldcap > needed THEN 2 * oldcap ELSE needed}

\* The garbage collector: the arrays no slice points into are gone.
Collect(h, hdr, snaps) ==
    LET live == {hdr.arr} \cup {snaps[r].hdr.arr : r \in {x \in DOMAIN snaps : snaps[x].held}}
    IN  [a \in DOMAIN h \cap live |-> h[a]]

\* append(s, e)
GoAppend(h, hdr, e, newcap) ==
    IF hdr.len < hdr.cap
    THEN [heap |-> [h EXCEPT ![hdr.arr][hdr.off + hdr.len + 1] = e],
          hdr |-> [hdr EXCEPT !.len = @ + 1]]
    ELSE MakeSlice(h, newcap, Append(View(h, hdr), e))

\* Mutant of TrimSlice: the elements are moved down inside the array,
\* copy(s, s[len(s)-1000:]); s = s[:1000]
TrimSlice_CopyDown(h, hdr) ==
    IF hdr.len > WindowCap
    THEN LET d == hdr.len - WindowCap
         IN  [heap |-> [h EXCEPT ![hdr.arr] =
                          [i \in 1..Len(@) |->
                              IF i > hdr.off /\ i <= hdr.off + WindowCap
                              THEN @[i + d] ELSE @[i]]],
              hdr |-> [hdr EXCEPT !.len = WindowCap]]
    ELSE [heap |-> h, hdr |-> hdr]

\* if len(cc.Recent) > 1000 { cc.Recent = cc.Recent[len(cc.Recent)-1000:] }
TrimSlice(h, hdr) ==
    IF hdr.len > WindowCap
    THEN LET d == hdr.len - WindowCap
         IN  [heap |-> h,
              hdr |-> [arr |-> hdr.arr, off |-> hdr.off + d,
                       len |-> WindowCap, cap |-> hdr.cap - d]]
    ELSE [heap |-> h, hdr |-> hdr]

\* The items numbered from..(from + n - 1), newest first, as the Store returns them.
NewestFirst(from, n) == [i \in 1..n |-> from + n - i]

\* Init: a new slice of capacity 1000 is filled with what the Store returns
\* and reversed in place, all inside the critical section.
Window_Init ==
    \E n \in 0..WindowCap :
        /\ sliceNext + n <= MaxItems + 1
        /\ LET m == MakeSlice(heap, WindowCap, ReverseInPlace(NewestFirst(sliceNext, n)))
           IN  /\ heap' = Collect(m.heap, m.hdr, snap)
               /\ recentHdr' = m.hdr
        /\ sliceNext' = sliceNext + n
        /\ lastOp' = [op |-> "Window.Init"]
        /\ UNCHANGED <<clock, snap>>

\* Insert(item)
Window_Insert ==
    /\ sliceNext <= MaxItems
    /\ \E newcap \in GrowCaps(recentHdr.cap, recentHdr.len + 1) :
          LET a == GoAppend(heap, recentHdr, sliceNext, newcap)
              t == TrimSlice(a.heap, a.hdr)
          IN  /\ heap' = Collect(t.heap, t.hdr, snap)
              /\ recentHdr' = t.hdr
              /\ lastOp' = [op |-> "Window.Insert",
                            inPlace |-> recentHdr.len < recentHdr.cap]
    /\ sliceNext' = sliceNext + 1
    /\ UNCHANGED <<clock, snap>>

\* Get(): return cc.Recent.  The handler keeps the slice and reads it later,
\* outside the lock.
Window_Get(r) ==
    /\ snap' = [snap EXCEPT ![r] = [held |-> TRUE, hdr |-> recentHdr,
                                    seen |-> View(heap, recentHdr)]]
    /\ heap' = Collect(heap, recentHdr, snap')
    /\ lastOp' = [op |-> "Window.Get", r |-> r]
    /\ UNCHANGED <<clock, recentHdr, sliceNext>>

SliceIdle ==
    /\ heap = <<>>
    /\ recentHdr = [arr |-> 0, off |-> 0, len |-> 0, cap |-> 0]
    /\ snap = [r \in SliceReaders |-> [held |-> FALSE]]
    /\ sliceNext = 1

(***************************************************************************)
(* The handlers that write entries2 and comments (app.go).                 *)
(***************************************************************************)
\* Rows GetInitialize keeps; stands for the literals 500000 and 1500000 of
\* its DELETE statements.
BaseIds == 1

AppProcs == {"h1", "h2"}

\* Number of entries and comments posted in a behaviour: one per handler.
MaxPosts == Cardinality(AppProcs)

\* The handlers may post once more.
MayPost == (nextEntryId - BaseIds - 1) + (nextCommentId - BaseIds - 1) < MaxPosts

\* func PostEntry: one INSERT, then the redirect.
PostEntry ==
    /\ MayPost
    /\ entries2' = entries2 \cup {EntryRow(nextEntryId, clock)}
    /\ nextEntryId' = nextEntryId + 1
    /\ lastOp' = [op |-> "PostEntry", id |-> nextEntryId]
    /\ UNCHANGED <<clock, comments, nextCommentId, entryCache_Recent,
                   commentCache_Recent, entryBase, entryLog, commentBase,
                   commentLog, underTest, appVars>>

\* func PostComment: the entry is found, the comment is INSERTed
\* (created_at is the Store's clock) and LastInsertId read.
PostComment_Exec(p) ==
    /\ appProc[p] = Idle
    /\ entries2 # {}
    /\ MayPost
    /\ comments' = comments \cup {CommentRow(nextCommentId, clock)}
    /\ nextCommentId' = nextCommentId + 1
    /\ appProc' = [appProc EXCEPT ![p] = [pc |-> "now", lastId |-> nextCommentId]]
    /\ lastOp' = [op |-> "PostComment.Exec"]
    /\ UNCHANGED <<clock, entries2, nextEntryId, entryCache_Recent,
                   commentCache_Recent, entryBase, entryLog, commentBase,
                   commentLog, underTest, initApp>>

\* c := Comment{ID: int(lastId), ..., CreatedAt: time.Now(), ...}
PostComment_Now(p) ==
    /\ appProc[p].pc = "now"
    /\ appProc' = [appProc EXCEPT
                     ![p] = [pc |-> "insert", c |-> CommentRow(appProc[p].lastId, clock)]]
    /\ lastOp' = [op |-> "PostComment.Now"]
    /\ UNCHANGED <<clock, windowVars, initApp>>

\* commentCache.Insert(c)
PostComment_Insert(p) ==
    /\ appProc[p].pc = "insert"
    /\ commentCache_Recent' = CommentAppendTrim(commentCache_Recent, appProc[p].c)
    /\ commentLog' = Append(commentLog, appProc[p].c)
    /\ appProc' = [appProc EXCEPT ![p] = Idle]
    /\ lastOp' = [op |-> "PostComment", id |-> appProc[p].c.ID]
    /\ UNCHANGED <<clock, entries2, comments, nextEntryId, nextCommentId,
                   entryCache_Recent, entryBase, entryLog, commentBase,
                   underTest, initApp>>

\* func GetInitialize: DELETE FROM entries2 WHERE id > 500000
GetInitialize_DeleteEntries ==
    /\ initApp = Idle
    /\ entries2' = {e \in entries2 : e.ID <= BaseIds}
    /\ initApp' = [pc |-> "comments"]
    /\ lastOp' = [op |-> "GetInitialize.DeleteEntries"]
    /\ UNCHANGED <<clock, comments, nextEntryId, nextCommentId, entryCache_Recent,
                   commentCache_Recent, entryBase, entryLog, commentBase,
                   commentLog, underTest, appProc>>

\* DELETE FROM comments WHERE id > 1500000
GetInitialize_DeleteComments ==
    /\ initApp.pc = "comments"
    /\ comments' = {c \in comments : c.ID <= BaseIds}
    /\ initApp' = [pc |-> "commentCache.Init"]
    /\ lastOp' = [op |-> "GetInitialize.DeleteComments"]
    /\ UNCHANGED <<clock, entries2, nextEntryId, nextCommentId, entryCache_Recent,
                   commentCache_Recent, entryBase, entryLog, commentBase,
                   commentLog, underTest, appProc>>

\* commentCache.Init()
GetInitialize_CommentCacheInit ==
    /\ initApp.pc = "commentCache.Init"
    /\ CommentCache_Init
    /\ initApp' = [pc |-> "entryCache.Init"]
    /\ UNCHANGED appProc

\* entryCache.Init()
GetInitialize_EntryCacheInit ==
    /\ initApp.pc = "entryCache.Init"
    /\ EntryCache_Init
    /\ initApp' = Idle
    /\ UNCHANGED appProc

AppIdle ==
    /\ appProc = [p \in AppProcs |-> Idle]
    /\ initApp = Idle

(***************************************************************************)
(* FriendRepo (app.go): the friendship graph, map[int]map[int]bool.        *)
(* friend is a function from the ids that have an adjacency map to the set *)
(* of ids stored in it (only true is ever stored).  Reset, Insert,         *)
(* IsFriend and Count hold the repo's mutex for their whole body and do no *)
(* Store I/O, so each is one atomic step.  Init is not atomic: it calls    *)
(* Reset, queries the Store without the mutex, and calls Insert per row.   *)
(***************************************************************************)
EmptyGraph == [u \in {} |-> {}]

\* fr.friend = make(map[int]map[int]bool, 1024)
FriendReset(f) == EmptyGraph

\* Mutant of FriendInsert: only a's adjacency map is written.
FriendInsert_OneWay(f, a, b) ==
    IF a = b THEN f
    ELSE LET f1 == IF a \in DOMAIN f THEN f ELSE f @@ (a :> {})
         IN  [f1 EXCEPT ![a] = @ \cup {b}]

\* Mutant of FriendInsert: the test a == b is missing.
FriendInsert_SelfLoop(f, a, b) ==
    LET f1 == IF a \in DOMAIN f THEN f ELSE f @@ (a :> {})
        f2 == [f1 EXCEPT ![a] = @ \cup {b}]
        f3 == IF b \in DOMAIN f2 THEN f2 ELSE f2 @@ (b :> {})
    IN  [f3 EXCEPT ![b] = @ \cup {a}]

\* func (fr *FriendRepo) Insert(a, b int)
FriendInsert(f, a, b) ==
    IF a = b THEN f
    ELSE LET f1 == IF a \in DOMAIN f THEN f ELSE f @@ (a :> {})
             f2 == [f1 EXCEPT ![a] = @ \cup {b}]
             f3 == IF b \in DOMAIN f2 THEN f2 ELSE f2 @@ (b :> {})
         IN  [f3 EXCEPT ![b] = @ \cup {a}]

\* func (fr *FriendRepo) IsFriend(a, b int) bool
IsFriend(f, a, b) ==
    IF a = b THEN TRUE
    ELSE IF a \notin DOMAIN f THEN FALSE
    ELSE b \in f[a]

\* Mutant of Count: the user counts as its own friend.
Count_WithSelf(f, userID) ==
    IF userID \in DOMAIN f THEN Cardinality(f[userID] \cup {userID}) ELSE 0

\* func (fr *FriendRepo) Count(userID int) int
Count(f, userID) ==
    IF userID \in DOMAIN f THEN Cardinality(f[userID]) ELSE 0

\* The graph Init builds from a set of rows: one Insert per row, in any order
\* (Insert commutes).
RECURSIVE LoadGraph(_, _)
LoadGraph(f, rows) ==
    IF rows = {} THEN f
    ELSE LET r == CHOOSE x \in rows : TRUE
         IN  LoadGraph(FriendInsert(f, r[1], r[2]), rows \ {r})

\* SELECT one, another FROM relations
Relations == relBase \cup relNew

\* History: the pair an Insert(a, b) adds to `inserted`; a self-pair adds none.
PairOf(a, b) == IF a = b THEN {} ELSE {{a, b}}

\* A request handler calls friendRepo.IsFriend (isFriend, permitted2, GetIndex).
FriendRepo_IsFriend(a, b) ==
    /\ lastOp' = [op |-> "FriendRepo.IsFriend", a |-> a, b |-> b,
                  result |-> IsFriend(friend, a, b)]
    /\ UNCHANGED <<clock, friendVars>>

\* GetIndex calls friendRepo.Count(user.ID).
FriendRepo_Count(u) ==
    /\ lastOp' = [op |-> "FriendRepo.Count", a |-> u, result |-> Count(friend, u)]
    /\ UNCHANGED <<clock, friendVars>>

\* PostFriends, user u befriending another: if !isFriendAccount(...) {
PostFriends_Check(u, another) ==
    /\ postFriends.pc = "idle"
    /\ postFriends' = IF IsFriend(friend, u, another)
                      THEN Idle
                      ELSE [pc |-> "exec", a |-> u, b |-> another]
    /\ lastOp' = [op |-> "PostFriends"]
    /\ UNCHANGED <<clock, relBase, relNew, friend, initFriends, inserted>>

\* db.Exec(`INSERT INTO relations (one, another) VALUES (?,?), (?,?)`, ...)
PostFriends_Exec ==
    /\ postFriends.pc = "exec"
    /\ relNew' = relNew \cup {<<postFriends.a, postFriends.b>>,
                              <<postFriends.b, postFriends.a>>}
    /\ postFriends' = [postFriends EXCEPT !.pc = "insert"]
    /\ lastOp' = [op |-> "PostFriends.Exec"]
    /\ UNCHANGED <<clock, relBase, friend, initFriends, inserted>>

\* friendRepo.Insert(user.ID, another.ID)
PostFriends_Insert ==
    /\ postFriends.pc = "insert"
    /\ friend' = FriendInsert(friend, postFriends.a, postFriends.b)
    /\ inserted' = inserted \cup PairOf(postFriends.a, postFriends.b)
    /\ postFriends' = Idle
    /\ lastOp' = [op |-> "FriendRepo.Insert", a |-> postFriends.a,
                  b |-> postFriends.b]
    /\ UNCHANGED <<clock, relBase, relNew, initFriends>>

\* GetInitialize: db.Exec("DELETE FROM relations WHERE id > 500000")
GetInitialize_DeleteRelations ==
    /\ initFriends.pc = "idle"
    /\ relNew' = {}
    /\ initFriends' = [pc |-> "reset"]
    /\ lastOp' = [op |-> "GetInitialize"]
    /\ UNCHANGED <<clock, relBase, friend, postFriends, inserted>>

\* friendRepo.Init(): fr.Reset()
FriendRepo_Init_Reset ==
    /\ initFriends.pc = "reset"
    /\ friend' = FriendReset(friend)
    /\ inserted' = {}
    /\ initFriends' = [pc |-> "query"]
    /\ lastOp' = [op |-> "FriendRepo.Reset"]
    /\ UNCHANGED <<clock, relBase, relNew, postFriends>>

\* friendRepo.Init(): rows, err := db.Query(`SELECT one, another FROM relations`)
FriendRepo_Init_Query ==
    /\ initFriends.pc = "query"
    /\ initFriends' = [pc |-> "rows", rows |-> Relations]
    /\ lastOp' = [op |-> "FriendRepo.Init.Query"]
    /\ UNCHANGED <<clock, relBase, relNew, friend, postFriends, inserted>>

\* friendRepo.Init(): for rows.Next() { rows.Scan(&a, &b); fr.Insert(a, b) }
\* The query has no ORDER BY: the rows come in any order.
FriendRepo_Init_Insert ==
    /\ initFriends.pc = "rows"
    /\ \E r \in initFriends.rows :
          /\ friend' = FriendInsert(friend, r[1], r[2])
          /\ inserted' = inserted \cup PairOf(r[1], r[2])
          /\ initFriends' = [initFriends EXCEPT !.rows = @ \ {r}]
          /\ lastOp' = [op |-> "FriendRepo.Insert", a |-> r[1], b |-> r[2]]
    /\ UNCHANGED <<clock, relBase, relNew, postFriends>>

\* friendRepo.Init(): rows.Close(), and GetInitialize goes on to the other caches.
FriendRepo_Init_Close ==
    /\ initFriends.pc = "rows"
    /\ initFriends.rows = {}
    /\ initFriends' = Idle
    /\ lastOp' = [op |-> "FriendRepo.Init.Close"]
    /\ UNCHANGED <<clock, relBase, relNew, friend, postFriends, inserted>>

\* The values the friend variables keep in a specification that does not use them.
FriendIdle ==
    /\ relBase = {}
    /\ relNew = {}
    /\ friend = EmptyGraph
    /\ postFriends = Idle
    /\ initFriends = Idle
    /\ inserted = {}

\* The rows that store a set of unordered pairs of distinct users
\* (PostFriends writes both directions of a pair).
RowsOf(es) == {<<a, b>> \in Users \X Users : {a, b} \in es}

(***************************************************************************)
(* The locks of the cache layer (app.go, footprints.go, entrycache.go).    *)
(* Every cache embeds one sync.Mutex, userRepo a sync.RWMutex.  A cache    *)
(* call is a sequence of segments; a segment takes the cache's lock (or    *)
(* none), runs its body, in which a Store request may fail, and unlocks,   *)
(* explicitly or by defer.  What the bodies do to the data is left out     *)
(* here: only who waits for, holds and releases which lock.                *)
(***************************************************************************)
LockProcs == {"h1", "h2", "h3"}

Caches == {"userRepo", "profileRepo", "friendRepo", "commentCache",
           "entryCache", "footPrintCache"}

\* A segment: lock is "Lock", "RLock" or "none"; unlock is "defer" or
\* "explicit"; onError is what a failed Store request in the body does:
\* "panic", "fatal" (log.Fatal), or "none" when the body makes no request.
Seg(cache, lock, unlock, onError) ==
    [cache |-> cache, lock |-> lock, unlock |-> unlock, onError |-> onError]

CacheCall(name, segs) == [name |-> name, segs |-> segs]

\* The operations of the caches, as their code locks.
CacheCalls ==
    { CacheCall("UserRepo.Init", <<Seg("userRepo", "Lock", "defer", "fatal")>>),
      CacheCall("UserRepo.Get", <<Seg("userRepo", "RLock", "explicit", "none")>>),
      CacheCall("UserRepo.GetByMail", <<Seg("userRepo", "RLock", "explicit", "none")>>),
      CacheCall("UserRepo.GetByAccount", <<Seg("userRepo", "RLock", "explicit", "none")>>),
      CacheCall("ProfileRepo.Get", <<Seg("profileRepo", "Lock", "defer", "none")>>),
      CacheCall("ProfileRepo.Update", <<Seg("profileRepo", "Lock", "defer", "none")>>),
      CacheCall("ProfileRepo.Init", <<Seg("profileRepo", "Lock", "defer", "panic")>>),
      CacheCall("FriendRepo.Reset", <<Seg("friendRepo", "Lock", "explicit", "none")>>),
      CacheCall("FriendRepo.Insert", <<Seg("friendRepo", "Lock", "explicit", "none")>>),
      CacheCall("FriendRepo.IsFriend", <<Seg("friendRepo", "Lock", "defer", "none")>>),
      CacheCall("FriendRepo.Count", <<Seg("friendRepo", "Lock", "explicit", "none")>>),
      \* fr.Reset(); db.Query(...) with no lock held; fr.Insert(a, b) for a row
      CacheCall("FriendRepo.Init", <<Seg("friendRepo", "Lock", "explicit", "none"),
                                     Seg("friendRepo", "none", "explicit", "panic"),
                                     Seg("friendRepo", "Lock", "explicit", "none")>>),
      CacheCall("CommentCache.Init", <<Seg("commentCache", "Lock", "defer", "panic")>>),
      CacheCall("CommentCache.Insert", <<Seg("commentCache", "Lock", "defer", "none")>>),
      CacheCall("CommentCache.Get", <<Seg("commentCache", "Lock", "defer", "none")>>),
      CacheCall("EntryCache.Init", <<Seg("entryCache", "Lock", "defer", "panic")>>),
      CacheCall("EntryCache.Insert", <<Seg("entryCache", "Lock", "defer", "none")>>),
      CacheCall("EntryCache.Get", <<Seg("entryCache", "Lock", "defer", "none")>>),
      CacheCall("FoopprintCache.Reset", <<Seg("footPrintCache", "Lock", "explicit", "none")>>),
      CacheCall("FoopprintCache.Invalidate", <<Seg("footPrintCache", "Lock", "explicit", "none")>>),
      \* on a miss the body calls fetchFootprint, whose checkErr panics
      CacheCall("FoopprintCache.Get", <<Seg("footPrintCache", "Lock", "defer", "panic")>>) }

Unlocked == [writer |-> "none", readers |-> {}]

\* The segment a handler is in.
SegOf(p) == call[p].segs[call[p].i]

\* The locks a handler holds.
HeldBy(p) == {c \in Caches : mutex[c].writer = p \/ p \in mutex[c].readers}

\* The handlers blocked in RLock() of a cache.
WaitingReaders(c) ==
    {q \in LockProcs : /\ call[q].pc = "wait"
                       /\ SegOf(q).cache = c
                       /\ SegOf(q).lock = "RLock"}

\* A handler is blocked in Lock() of a cache.
WriterPending(c) ==
    \E q \in LockProcs : /\ call[q].pc = "wait"
                         /\ SegOf(q).cache = c
                         /\ SegOf(q).lock = "Lock"

\* Unlock() and RUnlock() by p.  Unlock of a RWMutex admits the readers that
\* were blocked by the writer.
Release(m, p, c) ==
    IF m[c].writer = p
    THEN [m EXCEPT ![c] = [writer |-> "none", readers |-> WaitingReaders(c)]]
    ELSE [m EXCEPT ![c] = [@ EXCEPT !.readers = @ \ {p}]]

\* The handlers an Unlock() by p admits as readers are in their critical section.
Admit(cl, p, c) ==
    IF mutex[c].writer = p
    THEN [q \in LockProcs |-> IF q \in WaitingReaders(c)
                              THEN [cl[q] EXCEPT !.pc = "cs"] ELSE cl[q]]
    ELSE cl

\* Mutant of LeftLocked: no Unlock is deferred.
LeftLocked_NoDefer(seg) == seg.lock # "none"

\* Does a panic in the segment's body leave the segment's lock locked?  A
\* deferred Unlock runs while the panic unwinds.
LeftLocked(seg) == seg.lock # "none" /\ seg.unlock # "defer"

\* The calls a behaviour follows: those of two handlers to all the caches, or
\* those of all the handlers to one cache.
MayCall(p, op) ==
    IF underTest \in Caches THEN op.segs[1].cache = underTest ELSE p \in {"h1", "h2"}

\* A handler calls a cache operation and comes to the Lock() of its first
\* segment; of the operation, the handler's state keeps the segments.
Cache_Call(p, op) ==
    /\ ~exited
    /\ call[p] = Idle
    /\ MayCall(p, op)
    /\ call' = [call EXCEPT ![p] = [pc |-> "wait", segs |-> op.segs, i |-> 1]]
    /\ lastOp' = [op |-> "Cache.Call"]
    /\ UNCHANGED <<clock, mutex, exited>>

\* Lock() or RLock() returns; a segment without a lock goes straight on.
\* RLock() waits while a writer holds the lock or is blocked in Lock().
Cache_Lock(p) ==
    /\ ~exited
    /\ call[p].pc = "wait"
    /\ LET seg == SegOf(p)
           c == seg.cache
       IN  CASE seg.lock = "Lock" ->
                   /\ mutex[c] = Unlocked
                   /\ mutex' = [mutex EXCEPT ![c] = [writer |-> p, readers |-> {}]]
             [] seg.lock = "RLock" ->
                   /\ mutex[c].writer = "none"
                   /\ ~WriterPending(c)
                   /\ mutex' = [mutex EXCEPT ![c] = [@ EXCEPT !.readers = @ \cup {p}]]
             [] OTHER -> UNCHANGED mutex
    /\ call' = [call EXCEPT ![p] = [@ EXCEPT !.pc = "cs"]]
    /\ lastOp' = [op |-> "Cache.Lock"]
    /\ UNCHANGED <<clock, exited>>

\* The body ends, a Store request in it answered; the lock is unlocked; the
\* call goes on to its next segment or returns.
Cache_Unlock(p) ==
    /\ ~exited
    /\ call[p].pc = "cs"
    /\ LET seg == SegOf(p)
           c == seg.cache
           after == IF call[p].i < Len(call[p].segs)
                    THEN [call[p] EXCEPT !.pc = "wait", !.i = @ + 1]
                    ELSE Idle
       IN  /\ mutex' = IF seg.lock = "none" THEN mutex ELSE Release(mutex, p, c)
           /\ call' = [Admit(call, p, c) EXCEPT ![p] = after]
    /\ lastOp' = [op |-> "Cache.Unlock"]
    /\ UNCHANGED <<clock, exited>>

\* The Store answers a request of the body with an error and the body panics
\* (panic(err), checkErr): deferred calls run, net/http recovers the panic and
\* the request ends.
Cache_Panic(p) ==
    /\ ~exited
    /\ call[p].pc = "cs"
    /\ SegOf(p).onError = "panic"
    /\ LET seg == SegOf(p)
           c == seg.cache
       IN  IF LeftLocked(seg)
           THEN /\ call' = [call EXCEPT ![p] = Idle]
                /\ UNCHANGED mutex
           ELSE /\ mutex' = IF seg.lock = "none" THEN mutex ELSE Release(mutex, p, c)
                /\ call' = [Admit(call, p, c) EXCEPT ![p] = Idle]
    /\ lastOp' = [op |-> "Cache.Panic", p |-> p, cache |-> SegOf(p).cache]
    /\ UNCHANGED <<clock, exited>>

\* The Store answers with an error and the body calls log.Fatal(err): the
\* process ends, and with it every handler, every call and every lock.
Cache_Fatal(p) ==
    /\ ~exited
    /\ call[p].pc = "cs"
    /\ SegOf(p).onError = "fatal"
    /\ exited' = TRUE
    /\ call' = [q \in LockProcs |-> Idle]
    /\ mutex' = [c \in Caches |-> Unlocked]
    /\ lastOp' = [op |-> "Cache.Fatal"]
    /\ UNCHANGED clock

\* The values the lock variables keep in a specification that does not use them.
LockIdle ==
    /\ mutex = [c \in Caches |-> Unlocked]
    /\ call = [p \in LockProcs |-> Idle]
    /\ exited = FALSE

(***************************************************************************)
(* The footprint list on its way to a page: fetchFootprint (footprints.go) *)
(* builds a slice, FoopprintCache.Get hands it to the handler, and         *)
(* GetFootprints and GetIndex (app.go) re-slice it for their templates.    *)
(* A slice is its array (cap(s) cells, those past the length holding the   *)
(* zero value) and its length.                                             *)
(***************************************************************************)
\* Capacity fetchFootprint makes its slice with; stands for the literal 10
\* of  make([]Footprint, 0, 10).
FetchCap == 1

\* Number of footprints the index page takes; stands for the literal 10 of
\* footPrintCache.Get(user.ID)[:10].
IndexTake == 1

\* Number of footprints the footprints page takes; stands for the literal 50
\* of  footprints[:50].
PageTake == 2

PageHandlers == {"GetFootprints", "GetIndex"}

\* A Footprint no row was scanned into.
ZeroFootprint == [UserID |-> 0, OwnerID |-> 0, CreatedAt |-> 0, UpdatedAt |-> 0]

\* The outcome of a slice expression whose bound exceeds the capacity.
SlicePanic == "panic: slice bounds out of range"

\* footprints := make([]Footprint, 0, 10)
MakeFootprints == [arr |-> [i \in 1..FetchCap |-> ZeroFootprint], len |-> 0]

\* footprints = append(footprints, fp): in place while the array has room,
\* else into a new array of capacity newcap (the runtime's choice).
AppendFootprint(s, fp, newcap) ==
    IF s.len < Len(s.arr)
    THEN [arr |-> [s.arr EXCEPT ![s.len + 1] = fp], len |-> s.len + 1]
    ELSE [arr |-> [i \in 1..newcap |->
                      IF i <= s.len THEN s.arr[i]
                      ELSE IF i = s.len + 1 THEN fp ELSE ZeroFootprint],
          len |-> s.len + 1]

\* s[:hi]: Go checks hi against cap(s), not len(s); the cells between the
\* length and hi come along.
SliceTo(s, hi) ==
    IF hi > Len(s.arr) THEN SlicePanic ELSE SubSeq(s.arr, 1, hi)

\* The handler asks for the list: on a miss FoopprintCache.Get runs
\* fetchFootprint(userID, 50), whose query answers with the rows to scan.
fetchFootprint_Query(h, userID) ==
    /\ page.pc = "idle"
    /\ \E fps \in fetchFootprint(userID, FootLimit) :
          page' = [pc |-> "scan", handler |-> h, userID |-> userID,
                   rows |-> fps, fetched |-> fps, footprints |-> MakeFootprints]
    /\ lastOp' = [op |-> "fetchFootprint.Query", handler |-> h, userID |-> userID]
    /\ UNCHANGED <<clock, footVars>>

\* for rows.Next() { rows.Scan(...); footprints = append(footprints, fp) }
fetchFootprint_Scan ==
    /\ page.pc = "scan"
    /\ page.rows # <<>>
    /\ \E newcap \in GrowCaps(Len(page.footprints.arr), page.footprints.len + 1) :
          page' = [page EXCEPT
                     !.rows = Tail(@),
                     !.footprints = AppendFootprint(@, Head(page.rows), newcap)]
    /\ lastOp' = [op |-> "fetchFootprint.Scan"]
    /\ UNCHANGED <<clock, footVars>>

\* GetFootprints: render(w, r, http.StatusOK, "footprints.html",
\*                       struct{ Footprints []Footprint }{footprints[:50]})
GetFootprints_Render ==
    /\ page.pc = "scan"
    /\ page.rows = <<>>
    /\ page.handler = "GetFootprints"
    /\ lastOp' = [op |-> "GetFootprints", userID |-> page.userID,
                  fetched |-> page.fetched,
                  shown |-> SliceTo(page.footprints, PageTake)]
    /\ page' = Idle
    /\ UNCHANGED <<clock, footVars>>

\* GetIndex: footprints := footPrintCache.Get(user.ID)[:10]
GetIndex_Footprints ==
    /\ page.pc = "scan"
    /\ page.rows = <<>>
    /\ page.handler = "GetIndex"
    /\ lastOp' = [op |-> "GetIndex", userID |-> page.userID,
                  fetched |-> page.fetched,
                  shown |-> SliceTo(page.footprints, IndexTake)]
    /\ page' = Idle
    /\ UNCHANGED <<clock, footVars>>

PageIdle ==
    /\ page = Idle

(***************************************************************************)
(* PostComment (app.go), followed through its permission check: who the    *)
(* request's user is, whose entry is commented on and whether it is        *)
(* private.  entries2 rows carry user_id and private, comments rows         *)
(* user_id and entry_user_id; appProc holds the handler's locals.  The     *)
(* friend graph does not change while these handlers run.                  *)
(***************************************************************************)
\* entries2 row (id, user_id, private)
PrivacyEntryRow(id, owner, private) == [ID |-> id, UserID |-> owner, Private |-> private]

\* comments row (id, entry_id, user_id, entry_user_id)
PrivacyCommentRow(id, entryID, userID, ownerID) ==
    [ID |-> id, entry_id |-> entryID, user_id |-> userID, entry_user_id |-> ownerID]

\* c := Comment{ID: int(lastId), EntryID: entry.ID, UserID: user.ID, ...,
\*              EntryOwnerID: entry.UserID, private: entry.Private}
PrivacyComment(id, entry, userID) ==
    [ID |-> id, EntryID |-> entry.ID, UserID |-> userID,
     EntryOwnerID |-> entry.UserID, private |-> entry.Private]

\* func permitted(w, r, anotherID int) bool, for the request's user
permitted(f, userID, anotherID) ==
    IF anotherID = userID THEN TRUE ELSE IsFriend(f, userID, anotherID)

\* The comments the handlers post in a behaviour: one per handler.
MayComment == nextCommentId - 1 < MaxPosts

\* row := db.QueryRow(`SELECT id, user_id, private FROM entries2 WHERE id = ?`);
\* sql.ErrNoRows: render the 404 page and return.
PostComment_QueryRow(p, userID, entryID) ==
    /\ appProc[p] = Idle
    /\ MayComment
    /\ LET found == {e \in entries2 : e.ID = entryID}
       IN  IF found = {}
           THEN /\ lastOp' = [op |-> "PostComment.NotFound"]
                /\ UNCHANGED appProc
           ELSE /\ appProc' = [appProc EXCEPT
                                 ![p] = [pc |-> "permitted", user |-> userID,
                                         entry |-> CHOOSE e \in found : TRUE]]
                /\ lastOp' = [op |-> "PostComment.QueryRow"]
    /\ UNCHANGED <<clock, windowVars, initApp>>

\* if entry.Private { if !permitted(w, r, owner.ID) { permissionDenied(w, r) } }
\* permissionDenied renders the 403 page and returns to PostComment, which goes
\* on; render panics when the page cannot be written, which ends the request.
PostComment_Permitted(p) ==
    /\ appProc[p].pc = "permitted"
    /\ LET entry == appProc[p].entry
           denied == entry.Private /\ ~permitted(friend, appProc[p].user, entry.UserID)
       IN  \/ /\ appProc' = [appProc EXCEPT
                               ![p] = [pc |-> "exec", user |-> appProc[p].user,
                                       entry |-> entry, denied |-> denied]]
              /\ lastOp' = [op |-> "PostComment.Permitted", denied |-> denied]
           \/ /\ denied
              /\ appProc' = [appProc EXCEPT ![p] = Idle]
              /\ lastOp' = [op |-> "PostComment.Panic"]
    /\ UNCHANGED <<clock, windowVars, initApp>>

\* db.Exec(`INSERT INTO comments (entry_id, user_id, comment, entry_user_id) ...`)
\* lastId, _ := result.LastInsertId()
PostComment_DbExec(p) ==
    /\ appProc[p].pc = "exec"
    /\ comments' = comments \cup
          {PrivacyCommentRow(nextCommentId, appProc[p].entry.ID, appProc[p].user,
                             appProc[p].entry.UserID)}
    /\ nextCommentId' = nextCommentId + 1
    /\ appProc' = [appProc EXCEPT
                     ![p] = [pc |-> "insert", denied |-> appProc[p].denied,
                             c |-> PrivacyComment(nextCommentId, appProc[p].entry,
                                                  appProc[p].user)]]
    /\ lastOp' = [op |-> "PostComment.DbExec", denied |-> appProc[p].denied]
    /\ UNCHANGED <<clock, entries2, nextEntryId, entryCache_Recent,
                   commentCache_Recent, entryBase, entryLog, commentBase,
                   commentLog, underTest, initApp>>

\* commentCache.Insert(c), and the redirect
PostComment_CacheInsert(p) ==
    /\ appProc[p].pc = "insert"
    /\ commentCache_Recent' = CommentAppendTrim(commentCache_Recent, appProc[p].c)
    /\ appProc' = [appProc EXCEPT ![p] = Idle]
    /\ lastOp' = [op |-> "PostComment.CacheInsert", denied |-> appProc[p].denied]
    /\ UNCHANGED <<clock, entries2, comments, nextEntryId, nextCommentId,
                   entryCache_Recent, entryBase, entryLog, commentBase,
                   commentLog, underTest, initApp>>

(***************************************************************************)
(* GetIndex (app.go): the friend-entries and friend-comments lists.  The   *)
(* handler takes a snapshot of a window and walks it from the tail to the  *)
(* front; each iteration of a loop is one step.  Of an Entry only UserID   *)
(* matters here, of a Comment UserID, EntryOwnerID and private.            *)
(***************************************************************************)
\* len(entriesOfFriends) >= 10, len(commentsOfFriends) >= 10
IndexLimit == 2

\* The longest snapshot considered.
MaxSnapshot == IndexLimit + 2

\* func permitted2(myID, anotherID int) bool, always true (mutant).
permitted2_Always(f, myID, anotherID) == TRUE

\* func permitted2(myID, anotherID int) bool
permitted2(f, myID, anotherID) ==
    IF myID = anotherID THEN TRUE ELSE IsFriend(f, myID, anotherID)

\* The entries of a snapshot: Entry{UserID}.
IndexEntry(u) == [UserID |-> u]

\* The comments of a snapshot: Comment{UserID, EntryOwnerID, private}.  PostComment
\* copies EntryOwnerID and private from the entry commented on; here every user
\* owns one entry, and the entry of user 1 is the private one.
IndexComment(u, owner) == [UserID |-> u, EntryOwnerID |-> owner, private |-> owner = 1]

SeqsUpTo(S, n) == UNION {[1..k -> S] : k \in 0..n}

\* recentEntries := entryCache.Get(); entriesOfFriends := make([]Entry, 0, 10);
\* for i := len(recentEntries) - 1; ...
GetIndex_Begin ==
    /\ getIndex.pc = "idle"
    /\ entriesOfFriends' = <<>>
    /\ getIndex' = [pc |-> "entries", i |-> Len(recentEntries)]
    /\ lastOp' = [op |-> "GetIndex"]
    /\ UNCHANGED <<clock, indexUser, recentEntries, cc, commentsOfFriends>>

\* One iteration of the loop over recentEntries; i counts from 1, so the loop
\* runs while i >= 1.
GetIndex_Entries_Step ==
    /\ getIndex.pc = "entries"
    /\ getIndex.i >= 1
    /\ LET e == recentEntries[getIndex.i]
       IN  IF ~IsFriend(friend, indexUser, e.UserID)
           THEN /\ getIndex' = [getIndex EXCEPT !.i = @ - 1]
                /\ UNCHANGED entriesOfFriends
           ELSE /\ entriesOfFriends' = Append(entriesOfFriends, e)
                /\ getIndex' = IF Len(entriesOfFriends') >= IndexLimit
                               THEN [pc |-> "comments", i |-> Len(cc)]
                               ELSE [getIndex EXCEPT !.i = @ - 1]
    /\ lastOp' = [op |-> "GetIndex.Entries"]
    /\ UNCHANGED <<clock, indexUser, recentEntries, cc, commentsOfFriends>>

\* The loop over recentEntries ends at i < 0; cc := commentCache.Get();
\* for i := len(cc) - 1; ...
GetIndex_Entries_End ==
    /\ getIndex.pc = "entries"
    /\ getIndex.i < 1
    /\ getIndex' = [pc |-> "comments", i |-> Len(cc)]
    /\ lastOp' = [op |-> "GetIndex.Entries"]
    /\ UNCHANGED <<clock, indexUser, recentEntries, cc, entriesOfFriends,
                   commentsOfFriends>>

\* One iteration of the loop over cc.
GetIndex_Comments_Step ==
    /\ getIndex.pc = "comments"
    /\ getIndex.i >= 1
    /\ LET c == cc[getIndex.i]
       IN  IF ~IsFriend(friend, indexUser, c.UserID)
           THEN /\ getIndex' = [getIndex EXCEPT !.i = @ - 1]
                /\ UNCHANGED commentsOfFriends
           ELSE IF c.private /\ ~permitted2(friend, indexUser, c.EntryOwnerID)
           THEN /\ getIndex' = [getIndex EXCEPT !.i = @ - 1]
                /\ UNCHANGED commentsOfFriends
           ELSE /\ commentsOfFriends' = Append(commentsOfFriends, c)
                /\ getIndex' = IF Len(commentsOfFriends') >= IndexLimit
                               THEN [pc |-> "render"]
                               ELSE [getIndex EXCEPT !.i = @ - 1]
    /\ lastOp' = [op |-> "GetIndex.Comments"]
    /\ UNCHANGED <<clock, indexUser, recentEntries, cc, entriesOfFriends>>

\* The loop over cc ends at i < 0.
GetIndex_Comments_End ==
    /\ getIndex.pc = "comments"
    /\ getIndex.i < 1
    /\ getIndex' = [pc |-> "render"]
    /\ lastOp' = [op |-> "GetIndex.Comments"]
    /\ UNCHANGED <<clock, indexUser, recentEntries, cc, entriesOfFriends,
                   commentsOfFriends>>

\* The values the GetIndex variables keep in a specification that does not use them.
IndexIdle ==
    /\ indexUser = 0
    /\ recentEntries = <<>>
    /\ cc = <<>>
    /\ entriesOfFriends = <<>>
    /\ commentsOfFriends = <<>>
    /\ getIndex = Idle

\* main() has run friendRepo.Init() over the initial data before serving.  The
\* initial relations are empty, one pair in both directions, or one row that
\* relates a user to itself; PostFriends adds the other pairs.
FriendInit ==
    /\ clock = 0
    /\ lastOp = NoOp
    /\ WindowIdle
    /\ underTest = "none"
    /\ relBase \in {{}, RowsOf({{1, 2}}), {<<1, 1>>}}
    /\ relNew = {}
    /\ friend = LoadGraph(EmptyGraph, relBase)
    /\ inserted = UNION {PairOf(r[1], r[2]) : r \in relBase}
    /\ postFriends = Idle
    /\ initFriends = Idle
    /\ FootIdle
    /\ UserIdle
    /\ AppIdle
    /\ ProfileIdle
    /\ SliceIdle
    /\ IndexIdle
    /\ LockIdle
    /\ PageIdle

FriendNext ==
    \/ \E a, b \in Users : FriendRepo_IsFriend(a, b) /\ UNCHANGED <<windowVars, footVars, userVars, appVars, profileVars, sliceVars, indexVars, lockVars, pageVars>>
    \/ \E u \in Users : FriendRepo_Count(u) /\ UNCHANGED <<windowVars, footVars, userVars, appVars, profileVars, sliceVars, indexVars, lockVars, pageVars>>
    \/ \E u, v \in Users : PostFriends_Check(u, v) /\ UNCHANGED <<windowVars, footVars, userVars, appVars, profileVars, sliceVars, indexVars, lockVars, pageVars>>
    \/ PostFriends_Exec /\ UNCHANGED <<windowVars, footVars, userVars, appVars, profileVars, sliceVars, indexVars, lockVars, pageVars>>
    \/ PostFriends_Insert /\ UNCHANGED <<windowVars, footVars, userVars, appVars, profileVars, sliceVars, indexVars, lockVars, pageVars>>
    \/ GetInitialize_DeleteRelations /\ UNCHANGED <<windowVars, footVars, userVars, appVars, profileVars, sliceVars, indexVars, lockVars, pageVars>>
    \/ FriendRepo_Init_Reset /\ UNCHANGED <<windowVars, footVars, userVars, appVars, profileVars, sliceVars, indexVars, lockVars, pageVars>>
    \/ FriendRepo_Init_Query /\ UNCHANGED <<windowVars, footVars, userVars, appVars, profileVars, sliceVars, indexVars, lockVars, pageVars>>
    \/ FriendRepo_Init_Insert /\ UNCHANGED <<windowVars, footVars, userVars, appVars, profileVars, sliceVars, indexVars, lockVars, pageVars>>
    \/ FriendRepo_Init_Close /\ UNCHANGED <<windowVars, footVars, userVars, appVars, profileVars, sliceVars, indexVars, lockVars, pageVars>>

\* The friendship graph under the handlers that read and extend it and an
\* administrative reset running beside them.
SpecFriend == FriendInit /\ [][FriendNext]_vars

WindowInit ==
    /\ clock = 0
    /\ lastOp = NoOp
    /\ WindowIdle
    /\ underTest \in {"entry", "comment"}
    /\ FriendIdle
    /\ FootIdle
    /\ UserIdle
    /\ AppIdle
    /\ ProfileIdle
    /\ SliceIdle
    /\ IndexIdle
    /\ LockIdle
    /\ PageIdle

WindowNext ==
    \/ Tick /\ UNCHANGED <<windowVars, friendVars, footVars, userVars, appVars, profileVars, sliceVars, indexVars, lockVars, pageVars>>
    \/ underTest = "entry" /\ StoreInsertEntry /\ UNCHANGED <<friendVars, footVars, userVars, appVars, profileVars, sliceVars, indexVars, lockVars, pageVars>>
    \/ underTest = "entry" /\ EntryCache_Init /\ UNCHANGED <<friendVars, footVars, userVars, appVars, profileVars, sliceVars, indexVars, lockVars, pageVars>>
    \/ underTest = "entry" /\ EntryCache_Insert /\ UNCHANGED <<friendVars, footVars, userVars, appVars, profileVars, sliceVars, indexVars, lockVars, pageVars>>
    \/ underTest = "comment" /\ StoreInsertComment /\ UNCHANGED <<friendVars, footVars, userVars, appVars, profileVars, sliceVars, indexVars, lockVars, pageVars>>
    \/ underTest = "comment" /\ CommentCache_Init /\ UNCHANGED <<friendVars, footVars, userVars, appVars, profileVars, sliceVars, indexVars, lockVars, pageVars>>
    \/ underTest = "comment" /\ CommentCache_Insert /\ UNCHANGED <<friendVars, footVars, userVars, appVars, profileVars, sliceVars, indexVars, lockVars, pageVars>>

\* The two windows driven through their API: any interleaving of Init and
\* Insert calls, over a Store that grows meanwhile.  The windows share neither
\* state nor lock, so a behaviour drives one of them (underTest).
SpecWindow == WindowInit /\ [][WindowNext]_vars

(***************************************************************************)
(* The footprint cache under two request handlers (GetIndex/GetFootprints  *)
(* call Get; GetProfile, ListEntries and GetEntry call markFootprint) and  *)
(* an administrative reset.  Only markFootprint reads the clock, so time   *)
(* passes only while a visit can still be written.                         *)
(***************************************************************************)
\* At startup the cache is empty; the footprints table holds the initial data.
FootInit ==
    /\ clock = 0
    /\ lastOp = NoOp
    /\ WindowIdle
    /\ underTest = "none"
    /\ FriendIdle
    /\ UserIdle
    /\ AppIdle
    /\ ProfileIdle
    /\ SliceIdle
    /\ IndexIdle
    /\ LockIdle
    /\ PageIdle
    /\ footBase = {FootRow(1, 2, 0)}
    /\ footNew = {}
    /\ footCache = EmptyMap
    /\ footLock = "free"
    /\ footProc = [p \in FootProcs |-> Idle]
    /\ initFoot = "idle"
    /\ fpPending = NoPending
    /\ fpGets = [k \in Users |-> 0]
    /\ fpFetches = [k \in Users |-> 0]
    /\ fpFetched = [k \in Users |-> "none"]
    /\ fpOld = [k \in Users |-> {}]
    /\ visits = 0

FootNext ==
    \/ visits < MaxVisits /\ Tick /\ UNCHANGED <<windowVars, friendVars, footVars, userVars, appVars, profileVars, sliceVars, indexVars, lockVars, pageVars>>
    \/ \E p \in FootProcs, k \in Users :
          FoopprintCache_Get(p, k) /\ UNCHANGED <<windowVars, friendVars, userVars, appVars, profileVars, sliceVars, indexVars, lockVars, pageVars>>
    \/ \E p \in FootProcs :
          FoopprintCache_Get_Fetch(p) /\ UNCHANGED <<windowVars, friendVars, userVars, appVars, profileVars, sliceVars, indexVars, lockVars, pageVars>>
    \/ \E p \in FootProcs :
          FoopprintCache_Get_Store(p) /\ UNCHANGED <<windowVars, friendVars, userVars, appVars, profileVars, sliceVars, indexVars, lockVars, pageVars>>
    \/ \E p \in FootProcs, visitor, id \in Users :
          markFootprint(p, visitor, id) /\ UNCHANGED <<windowVars, friendVars, userVars, appVars, profileVars, sliceVars, indexVars, lockVars, pageVars>>
    \/ \E p \in FootProcs :
          markFootprint_Invalidate(p) /\ UNCHANGED <<windowVars, friendVars, userVars, appVars, profileVars, sliceVars, indexVars, lockVars, pageVars>>
    \/ GetInitialize_DeleteFootprints /\ UNCHANGED <<windowVars, friendVars, userVars, appVars, profileVars, sliceVars, indexVars, lockVars, pageVars>>
    \/ FoopprintCache_Reset /\ UNCHANGED <<windowVars, friendVars, userVars, appVars, profileVars, sliceVars, indexVars, lockVars, pageVars>>

SpecFoot == FootInit /\ [][FootNext]_vars

(***************************************************************************)
(* Claims about the recency windows, under SpecWindow.                     *)
(***************************************************************************)
\* C1 (Capacity): in every reachable state, after any interleaving of Init and
\* Insert calls, neither window is longer than its capacity.
C1_Capacity ==
    /\ Len(entryCache_Recent) <= WindowCap
    /\ Len(commentCache_Recent) <= WindowCap

\* An Insert has just overflowed a full window, which is at capacity.
C1_Witness ==
    /\ lastOp.op \in {"EntryCache.Insert", "CommentCache.Insert"}
    /\ \/ /\ Len(entryBase) + Len(entryLog) > WindowCap
          /\ Len(entryCache_Recent) = WindowCap
       \/ /\ Len(commentBase) + Len(commentLog) > WindowCap
          /\ Len(commentCache_Recent) = WindowCap

\* N+1 items went, one after another, into a window that was empty: the window
\* is exactly items 2..N+1 in insertion order.
EvictionScenario(base, log, recent) ==
    (base = <<>> /\ Len(log) = WindowCap + 1) =>
        recent = SubSeq(log, 2, WindowCap + 1)

\* An Insert into a full window drops the front element and nothing else.
DropsFront(op, before, after) ==
    (lastOp'.op = op /\ Len(before) = WindowCap) =>
        after = Tail(before) \o <<lastOp'.item>>

\* C2 (Eviction correctness): inserting N+1 items into an empty window of
\* capacity N leaves exactly items 2..N+1, in insertion order, item 1 evicted;
\* and each Insert into a full window drops exactly the front element.
C2_Eviction ==
    /\ [](/\ EvictionScenario(entryBase, entryLog, entryCache_Recent)
          /\ EvictionScenario(commentBase, commentLog, commentCache_Recent))
    /\ [][/\ DropsFront("EntryCache.Insert", entryCache_Recent, entryCache_Recent')
          /\ DropsFront("CommentCache.Insert", commentCache_Recent,
                        commentCache_Recent')]_vars

\* The (N+1)-th item has just been inserted into a window that started empty.
C2_Witness ==
    /\ lastOp.op = "EntryCache.Insert"
    /\ entryBase = <<>>
    /\ Len(entryLog) = WindowCap + 1
    /\ entryCache_Recent[1] = entryLog[2]

\* The last n elements of a sequence, and a sequence back to front.
LastN(s, n) == SubSeq(s, Len(s) - n + 1, Len(s))
Reverse(s) == [i \in 1..Len(s) |-> s[Len(s) + 1 - i]]

\* What a window holds when `log` was inserted, in this order, after the last
\* Init left `base`.
Survivors(base, log) == LastN(base \o log, Min(WindowCap, Len(base) + Len(log)))

\* C13 (Recency ordering): after any sequence of Inserts the window is in
\* insertion order, its tail is the item inserted last, and it holds exactly
\* the most recent min(N, total) items.
C13_RecencyOrder ==
    /\ entryCache_Recent = Survivors(entryBase, entryLog)
    /\ commentCache_Recent = Survivors(commentBase, commentLog)
    /\ entryLog # <<>> => Last(entryCache_Recent) = Last(entryLog)
    /\ commentLog # <<>> => Last(commentCache_Recent) = Last(commentLog)

\* Two Inserts after an Init that loaded something have overflowed the comment
\* window.
C13_Witness ==
    /\ lastOp.op = "CommentCache.Insert"
    /\ commentBase # <<>>
    /\ Len(commentLog) >= 2
    /\ Len(commentBase) + Len(commentLog) > WindowCap

\* The window Init leaves over a table: the reverse of an answer of the Store,
\* min(N, M) items, the newest item of the table at the tail.
InitResult(table, recent) ==
    /\ Len(recent) = Min(WindowCap, Cardinality(table))
    /\ Reverse(recent) \in QueryRecent(table, WindowCap)
    /\ recent # <<>> => \A r \in table : r.CreatedAt <= Last(recent).CreatedAt
    /\ \A r \in table \ Range(recent) : \A i \in 1..Len(recent) :
          r.CreatedAt <= recent[i].CreatedAt

\* C14 (RecencyWindow.Init result): right after Init over a Store of M items
\* the window holds the min(N, M) newest items, oldest first, whatever it held
\* before.
C14_InitResult ==
    /\ lastOp.op = "EntryCache.Init" => InitResult(entries2, entryCache_Recent)
    /\ lastOp.op = "CommentCache.Init" => InitResult(comments, commentCache_Recent)

\* Init has just run over more rows than the window takes, of different ages.
C14_Witness ==
    /\ lastOp.op = "CommentCache.Init"
    /\ Cardinality(comments) > WindowCap
    /\ commentCache_Recent[1].CreatedAt < Last(commentCache_Recent).CreatedAt

(***************************************************************************)
(* Claims about the friendship graph, under SpecFriend.  Every state of    *)
(* the specification lies between two critical sections of the repo's      *)
(* mutex, so every state is one a concurrent reader can observe.           *)
(***************************************************************************)
\* C3 (Adjacency symmetry): in every reachable state, also while Init or other
\* Inserts are running, b is in a's adjacency set exactly when a is in b's, and
\* IsFriend agrees in both directions; right after Insert(a,b) with a # b,
\* IsFriend(a,b) and IsFriend(b,a) are both true.
C3_Symmetry ==
    /\ \A a \in DOMAIN friend : \A b \in friend[a] :
          b \in DOMAIN friend /\ a \in friend[b]
    /\ \A a, b \in Users : IsFriend(friend, a, b) = IsFriend(friend, b, a)
    /\ (lastOp.op = "FriendRepo.Insert" /\ lastOp.a # lastOp.b) =>
          /\ IsFriend(friend, lastOp.a, lastOp.b)
          /\ IsFriend(friend, lastOp.b, lastOp.a)

\* An Insert(a,b), a # b, has just returned while friendRepo.Init is between its
\* Reset and the end of its row loop.
C3_Witness ==
    /\ lastOp.op = "FriendRepo.Insert"
    /\ lastOp.a # lastOp.b
    /\ initFriends.pc \in {"query", "rows"}
    /\ lastOp.b \in friend[lastOp.a]

\* C9 (Init serialises with readers): an IsFriend call that runs while
\* friendRepo.Init does sees the old or the completely reloaded graph, so for a
\* pair whose rows are in the Store throughout (relBase is never deleted)
\* IsFriend never returns false.
C9_InitSerialises ==
    (lastOp.op = "FriendRepo.IsFriend" /\ <<lastOp.a, lastOp.b>> \in relBase) =>
        lastOp.result = TRUE

\* The distinct ids b # a for which Insert(a, b) or Insert(b, a) has been
\* performed since the last Reset.
InsertedWith(a) == {b \in Users : b # a /\ {a, b} \in inserted}

C18_SelfFriendship ==
    /\ [](/\ \A x \in Users : IsFriend(friend, x, x)
          /\ \A x \in DOMAIN friend : x \notin friend[x]
          /\ (lastOp.op = "FriendRepo.IsFriend" /\ lastOp.a = lastOp.b) =>
                lastOp.result = TRUE)
    /\ [][(lastOp'.op = "FriendRepo.Insert" /\ lastOp'.a = lastOp'.b) =>
             friend' = friend]_vars

\* Init has just called Insert(x,x) for a row that relates x to itself, on a
\* graph that holds an edge.
C18_Witness ==
    /\ lastOp.op = "FriendRepo.Insert"
    /\ lastOp.a = lastOp.b
    /\ DOMAIN friend # {}

(***************************************************************************)
(* Claims about the footprint cache, under SpecFoot.                       *)
(***************************************************************************)
\* C4 (Lazy cache hit/miss): from the moment a key has no entry (startup,
\* Reset, Invalidate of the key), the Gets of the key, one after another or
\* concurrent, fetch from the Store exactly once in total, and each returns
\* what that one fetch returned, an empty result included.
C4_LazyHitMiss ==
    /\ \A k \in Users :
          /\ fpFetches[k] <= 1
          /\ fpGets[k] = 1 => fpFetches[k] = 1
    /\ lastOp.op = "FoopprintCache.Get" =>
          lastOp.result = fpFetched[lastOp.key]

\* A Get has just been answered from a cached empty list, without a fetch,
\* although the Store holds a footprint of the key by now.
C4_Witness ==
    /\ lastOp.op = "FoopprintCache.Get"
    /\ ~lastOp.fetched
    /\ lastOp.result = <<>>
    /\ \E r \in Footprints : r.user_id = lastOp.key

\* C5 (Invalidation): Invalidate(k) leaves no entry for k, and the first Get(k)
\* after it fetches from the Store once and returns an answer of the Store as
\* it is then, whether or not k was cached before the Invalidate.
C5_Invalidation ==
    [][/\ lastOp'.op = "markFootprint.Invalidate" =>
             footProc[lastOp'.p].id \notin DOMAIN footCache'
       /\ (lastOp'.op = "FoopprintCache.Get" /\ lastOp'.afterInvalidate # "no") =>
             lastOp'.fetched
       /\ \A k \in Users : (fpGets[k] = 0 /\ fpGets'[k] = 1) =>
             /\ lastOp'.op = "FoopprintCache.Get"
             /\ lastOp'.key = k
             /\ lastOp'.fetched
             /\ fpFetches'[k] = 1
             /\ lastOp'.result = fpFetched'[k]
       /\ lastOp'.op = "FoopprintCache.Get.Fetch" =>
             LET k == footProc[lastOp'.p].key
             IN  /\ fpFetches[k] = 0
                 /\ Footprints' = Footprints
                 /\ fpFetched'[k] \in fetchFootprint(k, FootLimit)]_vars

\* The first Get after the Invalidate of a key that was cached has just
\* fetched, and returned a footprint.
C5_Witness ==
    /\ lastOp.op = "FoopprintCache.Get"
    /\ lastOp.afterInvalidate = "of a cached key"
    /\ lastOp.fetched
    /\ lastOp.result # <<>>

\* C6 (Footprint write targeting): markFootprint(visitor, owner) with
\* visitor # owner writes one footprint row (owner, visitor, today, now) and
\* leaves the cache alone, then removes the owner's entry and no other entry;
\* markFootprint(x, x) changes neither the Store nor the cache.
C6_WriteTargeting ==
    [][/\ lastOp'.op = "markFootprint.Exec" =>
             LET visitor == footProc'[lastOp'.p].visitor
                 id == footProc'[lastOp'.p].id
                 row == [user_id |-> id, owner_id |-> visitor,
                         date |-> Day(clock), created_at |-> clock]
             IN  /\ visitor # id
                 /\ row \in Footprints'
                 /\ Footprints' \ {row} \subseteq Footprints
                 /\ \A r \in Footprints \ Footprints' :
                       r.user_id = id /\ r.owner_id = visitor /\ r.date = row.date
                 /\ footCache' = footCache
       /\ lastOp'.op = "markFootprint.Invalidate" =>
             LET id == footProc[lastOp'.p].id
             IN  /\ DOMAIN footCache' = DOMAIN footCache \ {id}
                 /\ \A k \in DOMAIN footCache' : footCache'[k] = footCache[k]
                 /\ Footprints' = Footprints
       /\ lastOp'.op = "markFootprint.Self" =>
             /\ Footprints' = Footprints
             /\ footCache' = footCache
             /\ fpPending' = fpPending]_vars

\* markFootprint has just invalidated the owner's entry, which was cached, and
\* another key (the visitor's) is still cached.
C6_Witness ==
    /\ lastOp.op = "markFootprint.Invalidate"
    /\ fpPending.wasCached
    /\ fpPending.key \notin DOMAIN footCache
    /\ \E k \in DOMAIN footCache : k # fpPending.key

\* C20 (No stale footprints survive a visit): once markFootprint(visitor,
\* owner), visitor # owner, has returned, every Get(owner) that starts
\* afterwards returns a result fetched from the Store after the visit's row was
\* written; no interleaving of Gets with the write and the invalidation leaves
\* in the cache, after the invalidation, a result fetched before the write.
\* A list fetched before the write of a visit exists only while the visit's
\* markFootprint has not returned, and a Get returns what the cache then holds.
C20_NoStaleFootprints ==
    /\ \A k \in Users : \A p \in fpOld[k] :
          /\ footProc[p].pc = "marked"
          /\ footProc[p].id = k
    /\ lastOp.op = "FoopprintCache.Get" =>
          /\ lastOp.key \in DOMAIN footCache
          /\ lastOp.result = footCache[lastOp.key]

\* A Get has just cached and returned a list it fetched before a visit to its
\* key was written; the visit's markFootprint has still to invalidate the key.
C20_Witness ==
    /\ lastOp.op = "FoopprintCache.Get"
    /\ lastOp.fetched
    /\ fpOld[lastOp.key] # {}
    /\ \E r \in footNew :
          /\ r.user_id = lastOp.key
          /\ \A i \in 1..Len(lastOp.result) : lastOp.result[i] # Scan(r)

\* C22 (No Store I/O inside a non-Init critical section): in no reachable
\* state does a cache operation other than a bulk Init hold its cache lock
\* while a Store request is outstanding; here the lazy cache's Get on a miss,
\* whose Store request is outstanding while it is at its fetch, so that a Get
\* or an Invalidate of another key could always take the mutex.
C22_NoStoreIOUnderLock ==
    \A p \in FootProcs :
       footProc[p].pc = "fetch" =>
          /\ footLock # p
          /\ MayLock(footLock)

(***************************************************************************)
(* SpecUser: userRepo over a users table that is unique by id, by address  *)
(* and by handle; main has run userRepo.Init(), GetInitialize runs it      *)
(* again, the handlers look users up.                                      *)
(***************************************************************************)
Injective(f) == \A x, y \in DOMAIN f : x # y => f[x] # f[y]

UserInit ==
    /\ clock = 0
    /\ lastOp = NoOp
    /\ WindowIdle
    /\ underTest = "users"
    /\ FriendIdle
    /\ FootIdle
    /\ AppIdle
    /\ ProfileIdle
    /\ SliceIdle
    /\ IndexIdle
    /\ LockIdle
    /\ PageIdle
    /\ \E S \in SUBSET UserIds :
          \E mail \in [S -> Mails], account \in [S -> Accounts] :
             /\ Injective(mail)
             /\ Injective(account)
             /\ usersTable = {UserRow(i, account[i], mail[i]) : i \in S}
    /\ userRepo = LoadUsers(EmptyRepo, usersTable)
    /\ userLock = "free"
    /\ initUser = Idle

UserNext ==
    \/ UserRepo_Init /\ UNCHANGED <<windowVars, friendVars, footVars, appVars, profileVars, sliceVars, indexVars, lockVars, pageVars>>
    \/ UserRepo_Init_Row /\ UNCHANGED <<windowVars, friendVars, footVars, appVars, profileVars, sliceVars, indexVars, lockVars, pageVars>>
    \/ UserRepo_Init_Unlock /\ UNCHANGED <<windowVars, friendVars, footVars, appVars, profileVars, sliceVars, indexVars, lockVars, pageVars>>
    \/ \E id \in UserIds :
          getUser(id) /\ UNCHANGED <<windowVars, friendVars, footVars, appVars, profileVars, sliceVars, indexVars, lockVars, pageVars>>
    \/ \E email \in Mails :
          authenticate(email) /\ UNCHANGED <<windowVars, friendVars, footVars, appVars, profileVars, sliceVars, indexVars, lockVars, pageVars>>
    \/ \E name \in Accounts :
          getUserFromAccount(name) /\ UNCHANGED <<windowVars, friendVars, footVars, appVars, profileVars, sliceVars, indexVars, lockVars, pageVars>>

SpecUser == UserInit /\ [][UserNext]_vars

(***************************************************************************)
(* SpecMirror: the two full-table mirrors.  They share neither state nor   *)
(* lock, so a behaviour drives one of them (underTest): userRepo as in     *)
(* SpecUser, or profileRepo under the handlers that read it (GetIndex,     *)
(* GetProfile), PostProfile and the profileRepo.Init() of GetInitialize.   *)
(***************************************************************************)
ProfileInit ==
    /\ clock = 0
    /\ lastOp = NoOp
    /\ WindowIdle
    /\ underTest = "profiles"
    /\ FriendIdle
    /\ FootIdle
    /\ UserIdle
    /\ AppIdle
    /\ SliceIdle
    /\ IndexIdle
    /\ LockIdle
    /\ PageIdle
    /\ profiles = [u \in Users |-> ProfileRow(u, "Tokyo", 0)]
    /\ profileRepo = profiles
    /\ profLock = "free"
    /\ profProc = [p \in ProfProcs |-> Idle]
    /\ initProfile = InitEnded(FALSE)

MirrorInit == UserInit \/ ProfileInit

MirrorNext ==
    \/ underTest = "profiles" /\ Tick /\ UNCHANGED <<windowVars, friendVars, footVars, userVars, appVars, profileVars, sliceVars, indexVars, lockVars, pageVars>>
    \/ underTest = "users" /\ UserRepo_Init /\ UNCHANGED <<windowVars, friendVars, footVars, appVars, profileVars, sliceVars, indexVars, lockVars, pageVars>>
    \/ underTest = "users" /\ UserRepo_Init_Row /\ UNCHANGED <<windowVars, friendVars, footVars, appVars, profileVars, sliceVars, indexVars, lockVars, pageVars>>
    \/ underTest = "users" /\ UserRepo_Init_Unlock /\ UNCHANGED <<windowVars, friendVars, footVars, appVars, profileVars, sliceVars, indexVars, lockVars, pageVars>>
    \/ underTest = "users" /\ \E id \in UserIds :
          getUser(id) /\ UNCHANGED <<windowVars, friendVars, footVars, appVars, profileVars, sliceVars, indexVars, lockVars, pageVars>>
    \/ underTest = "users" /\ \E email \in Mails :
          authenticate(email) /\ UNCHANGED <<windowVars, friendVars, footVars, appVars, profileVars, sliceVars, indexVars, lockVars, pageVars>>
    \/ underTest = "users" /\ \E name \in Accounts :
          getUserFromAccount(name) /\ UNCHANGED <<windowVars, friendVars, footVars, appVars, profileVars, sliceVars, indexVars, lockVars, pageVars>>
    \/ underTest = "profiles" /\ ProfileRepo_Init /\ UNCHANGED <<windowVars, friendVars, footVars, userVars, appVars, sliceVars, indexVars, lockVars, pageVars>>
    \/ underTest = "profiles" /\ ProfileRepo_Init_Row /\ UNCHANGED <<windowVars, friendVars, footVars, userVars, appVars, sliceVars, indexVars, lockVars, pageVars>>
    \/ underTest = "profiles" /\ ProfileRepo_Init_Unlock /\ UNCHANGED <<windowVars, friendVars, footVars, userVars, appVars, sliceVars, indexVars, lockVars, pageVars>>
    \/ underTest = "profiles" /\ \E id \in Users :
          ProfileRepo_Get(id) /\ UNCHANGED <<windowVars, friendVars, footVars, userVars, appVars, sliceVars, indexVars, lockVars, pageVars>>
    \/ underTest = "profiles" /\ \E p \in ProfProcs, id \in Users, pref \in Prefs :
          PostProfile_Exec(p, id, pref) /\ UNCHANGED <<windowVars, friendVars, footVars, userVars, appVars, sliceVars, indexVars, lockVars, pageVars>>
    \/ underTest = "profiles" /\ \E p \in ProfProcs :
          PostProfile_Select(p) /\ UNCHANGED <<windowVars, friendVars, footVars, userVars, appVars, sliceVars, indexVars, lockVars, pageVars>>
    \/ underTest = "profiles" /\ \E p \in ProfProcs :
          PostProfile_Update(p) /\ UNCHANGED <<windowVars, friendVars, footVars, userVars, appVars, sliceVars, indexVars, lockVars, pageVars>>

SpecMirror == MirrorInit /\ [][MirrorNext]_vars

(***************************************************************************)
(* SpecFault: profileRepo as in SpecMirror, over a Store whose queries and *)
(* row reads may fail while GetInitialize runs profileRepo.Init().         *)
(***************************************************************************)
FaultNext ==
    \/ Tick /\ UNCHANGED <<windowVars, friendVars, footVars, userVars, appVars, profileVars, sliceVars, indexVars, lockVars, pageVars>>
    \/ ProfileRepo_Init /\ UNCHANGED <<windowVars, friendVars, footVars, userVars, appVars, sliceVars, indexVars, lockVars, pageVars>>
    \/ ProfileRepo_Init_Row /\ UNCHANGED <<windowVars, friendVars, footVars, userVars, appVars, sliceVars, indexVars, lockVars, pageVars>>
    \/ ProfileRepo_Init_Unlock /\ UNCHANGED <<windowVars, friendVars, footVars, userVars, appVars, sliceVars, indexVars, lockVars, pageVars>>
    \/ \E id \in Users :
          ProfileRepo_Get(id) /\ UNCHANGED <<windowVars, friendVars, footVars, userVars, appVars, sliceVars, indexVars, lockVars, pageVars>>
    \/ \E p \in ProfProcs, id \in Users, pref \in Prefs :
          PostProfile_Exec(p, id, pref) /\ UNCHANGED <<windowVars, friendVars, footVars, userVars, appVars, sliceVars, indexVars, lockVars, pageVars>>
    \/ \E p \in ProfProcs :
          PostProfile_Select(p) /\ UNCHANGED <<windowVars, friendVars, footVars, userVars, appVars, sliceVars, indexVars, lockVars, pageVars>>
    \/ \E p \in ProfProcs :
          PostProfile_Update(p) /\ UNCHANGED <<windowVars, friendVars, footVars, userVars, appVars, sliceVars, indexVars, lockVars, pageVars>>
    \/ ProfileRepo_Init_QueryError /\ UNCHANGED <<windowVars, friendVars, footVars, userVars, appVars, sliceVars, indexVars, lockVars, pageVars>>
    \/ ProfileRepo_Init_ScanError /\ UNCHANGED <<windowVars, friendVars, footVars, userVars, appVars, sliceVars, indexVars, lockVars, pageVars>>

SpecFault == ProfileInit /\ [][FaultNext]_vars

(***************************************************************************)
(* SpecSlice: one window as a Go slice, under Init, Insert and handlers    *)
(* that keep what Get returned.  main has run Init.                        *)
(***************************************************************************)
SliceInit ==
    /\ clock = 0
    /\ lastOp = NoOp
    /\ WindowIdle
    /\ underTest = "slice"
    /\ FriendIdle
    /\ FootIdle
    /\ UserIdle
    /\ AppIdle
    /\ ProfileIdle
    /\ IndexIdle
    /\ LockIdle
    /\ PageIdle
    /\ \E n \in 0..WindowCap :
          LET m == MakeSlice(<<>>, WindowCap, ReverseInPlace(NewestFirst(1, n)))
          IN  /\ heap = m.heap
              /\ recentHdr = m.hdr
              /\ sliceNext = n + 1
    /\ snap = [r \in SliceReaders |-> [held |-> FALSE]]

SliceNext ==
    \/ Window_Init /\ UNCHANGED <<windowVars, friendVars, footVars, userVars, appVars, profileVars, indexVars, lockVars, pageVars>>
    \/ Window_Insert /\ UNCHANGED <<windowVars, friendVars, footVars, userVars, appVars, profileVars, indexVars, lockVars, pageVars>>
    \/ \E r \in SliceReaders : Window_Get(r) /\ UNCHANGED <<windowVars, friendVars, footVars, userVars, appVars, profileVars, indexVars, lockVars, pageVars>>

SpecSlice == SliceInit /\ [][SliceNext]_vars

\* A request of a logged-in user for the index page: any user, a graph with no
\* friendship or one, and either a snapshot of the entry window or a snapshot of
\* the comment window (the two lists are built one after the other and share
\* nothing).
IndexInit ==
    /\ clock = 0
    /\ lastOp = NoOp
    /\ WindowIdle
    /\ underTest = "index"
    /\ \E es \in SUBSET {{1, 2}} :
          /\ relBase = RowsOf(es)
          /\ friend = LoadGraph(EmptyGraph, RowsOf(es))
          /\ inserted = es
    /\ relNew = {}
    /\ postFriends = Idle
    /\ initFriends = Idle
    /\ FootIdle
    /\ UserIdle
    /\ AppIdle
    /\ ProfileIdle
    /\ SliceIdle
    /\ LockIdle
    /\ PageIdle
    /\ indexUser \in Users
    /\ \/ /\ recentEntries \in SeqsUpTo({IndexEntry(u) : u \in Users}, MaxSnapshot)
          /\ cc = <<>>
       \/ /\ recentEntries = <<>>
          /\ cc \in SeqsUpTo({IndexComment(u, o) : u \in Users, o \in Users}, MaxSnapshot)
    /\ entriesOfFriends = <<>>
    /\ commentsOfFriends = <<>>
    /\ getIndex = Idle

IndexNext ==
    \/ GetIndex_Begin /\ UNCHANGED <<windowVars, friendVars, footVars, userVars, appVars, profileVars, sliceVars, lockVars, pageVars>>
    \/ GetIndex_Entries_Step /\ UNCHANGED <<windowVars, friendVars, footVars, userVars, appVars, profileVars, sliceVars, lockVars, pageVars>>
    \/ GetIndex_Entries_End /\ UNCHANGED <<windowVars, friendVars, footVars, userVars, appVars, profileVars, sliceVars, lockVars, pageVars>>
    \/ GetIndex_Comments_Step /\ UNCHANGED <<windowVars, friendVars, footVars, userVars, appVars, profileVars, sliceVars, lockVars, pageVars>>
    \/ GetIndex_Comments_End /\ UNCHANGED <<windowVars, friendVars, footVars, userVars, appVars, profileVars, sliceVars, lockVars, pageVars>>

\* GetIndex building its two lists from a snapshot, for every snapshot, viewer
\* and graph of the initial states.
SpecIndex == IndexInit /\ [][IndexNext]_vars

\* Two entries of user 1, one of them private or both; a graph with no
\* friendship or one; no comments yet.  Any user comments on any entry.
PrivacyInit ==
    /\ clock = 0
    /\ lastOp = NoOp
    /\ \E pr \in BOOLEAN :
          entries2 = {PrivacyEntryRow(1, 1, TRUE), PrivacyEntryRow(2, 1, pr)}
    /\ comments = {}
    /\ nextEntryId = 3
    /\ nextCommentId = 1
    /\ entryCache_Recent = <<>>
    /\ commentCache_Recent = <<>>
    /\ entryBase = <<>>
    /\ entryLog = <<>>
    /\ commentBase = <<>>
    /\ commentLog = <<>>
    /\ underTest = "privacy"
    /\ \E es \in SUBSET {{1, 2}} :
          /\ relBase = RowsOf(es)
          /\ friend = LoadGraph(EmptyGraph, RowsOf(es))
          /\ inserted = es
    /\ relNew = {}
    /\ postFriends = Idle
    /\ initFriends = Idle
    /\ FootIdle
    /\ UserIdle
    /\ AppIdle
    /\ ProfileIdle
    /\ SliceIdle
    /\ IndexIdle
    /\ LockIdle
    /\ PageIdle

PrivacyNext ==
    \/ \E p \in AppProcs, u \in Users, e \in 1..3 :
          PostComment_QueryRow(p, u, e) /\ UNCHANGED <<friendVars, footVars, userVars, profileVars, sliceVars, indexVars, lockVars, pageVars>>
    \/ \E p \in AppProcs :
          PostComment_Permitted(p) /\ UNCHANGED <<friendVars, footVars, userVars, profileVars, sliceVars, indexVars, lockVars, pageVars>>
    \/ \E p \in AppProcs :
          PostComment_DbExec(p) /\ UNCHANGED <<friendVars, footVars, userVars, profileVars, sliceVars, indexVars, lockVars, pageVars>>
    \/ \E p \in AppProcs :
          PostComment_CacheInsert(p) /\ UNCHANGED <<friendVars, footVars, userVars, profileVars, sliceVars, indexVars, lockVars, pageVars>>

\* PostComment requests of any users for private and public entries.
SpecPrivacy == PrivacyInit /\ [][PrivacyNext]_vars

\* The server is up, no handler is in a cache call.
LockInit ==
    /\ clock = 0
    /\ lastOp = NoOp
    /\ WindowIdle
    /\ underTest \in {"locks"} \cup Caches
    /\ FriendIdle
    /\ FootIdle
    /\ UserIdle
    /\ AppIdle
    /\ ProfileIdle
    /\ SliceIdle
    /\ IndexIdle
    /\ LockIdle
    /\ PageIdle

\* The steps of one handler once it is in a call.
LockStep(p) ==
    \/ Cache_Lock(p) /\ UNCHANGED <<windowVars, friendVars, footVars, userVars, appVars, profileVars, sliceVars, indexVars, pageVars>>
    \/ Cache_Unlock(p) /\ UNCHANGED <<windowVars, friendVars, footVars, userVars, appVars, profileVars, sliceVars, indexVars, pageVars>>
    \/ Cache_Panic(p) /\ UNCHANGED <<windowVars, friendVars, footVars, userVars, appVars, profileVars, sliceVars, indexVars, pageVars>>
    \/ Cache_Fatal(p) /\ UNCHANGED <<windowVars, friendVars, footVars, userVars, appVars, profileVars, sliceVars, indexVars, pageVars>>

LockNext ==
    \/ \E p \in LockProcs, op \in CacheCalls : Cache_Call(p, op) /\ UNCHANGED <<windowVars, friendVars, footVars, userVars, appVars, profileVars, sliceVars, indexVars, pageVars>>
    \/ \E p \in LockProcs : LockStep(p)

\* Handlers and reset requests calling the caches.  The scheduler is fair and
\* the Store answers every request: a handler inside a critical section takes
\* its next step; and a handler blocked on a lock that is free again and again
\* gets it (a sync.Mutex hands the lock to a waiter that has waited long).
\* Both are the strong fairness of the handler's steps.
SpecLocks ==
    /\ LockInit
    /\ [][LockNext]_vars
    /\ \A p \in LockProcs : SF_vars(LockStep(p))

(***************************************************************************)
(* SpecPage: the footprints page and the index page asking for a user's    *)
(* footprint list.  The footprints table holds what earlier visits wrote:  *)
(* at most one row for a page, a visitor and a day.                        *)
(***************************************************************************)
\* The moments the table's rows were written at: one on each of the last days
\* (the initial data is older than the server's start, clock 0).
PastVisits == {0 - 2 * d : d \in 0..FootLimit}

PageInit ==
    /\ clock = 0
    /\ lastOp = NoOp
    /\ WindowIdle
    /\ underTest = "page"
    /\ FriendIdle
    /\ UserIdle
    /\ AppIdle
    /\ ProfileIdle
    /\ SliceIdle
    /\ IndexIdle
    /\ LockIdle
    /\ PageIdle
    /\ \E id \in Users :
          footBase \in SUBSET {FootRow(id, v, t) : v \in Users \ {id}, t \in PastVisits}
    /\ footNew = {}
    /\ footCache = EmptyMap
    /\ footLock = "free"
    /\ footProc = [p \in FootProcs |-> Idle]
    /\ initFoot = "idle"
    /\ fpPending = NoPending
    /\ fpGets = [k \in Users |-> 0]
    /\ fpFetches = [k \in Users |-> 0]
    /\ fpFetched = [k \in Users |-> "none"]
    /\ fpOld = [k \in Users |-> {}]
    /\ visits = 0

PageNext ==
    \/ \E h \in PageHandlers, id \in Users :
          fetchFootprint_Query(h, id) /\ UNCHANGED <<windowVars, friendVars, userVars, appVars, profileVars, sliceVars, indexVars, lockVars>>
    \/ fetchFootprint_Scan /\ UNCHANGED <<windowVars, friendVars, userVars, appVars, profileVars, sliceVars, indexVars, lockVars>>
    \/ GetFootprints_Render /\ UNCHANGED <<windowVars, friendVars, userVars, appVars, profileVars, sliceVars, indexVars, lockVars>>
    \/ GetIndex_Footprints /\ UNCHANGED <<windowVars, friendVars, userVars, appVars, profileVars, sliceVars, indexVars, lockVars>>

SpecPage == PageInit /\ [][PageNext]_vars

(***************************************************************************)
(* SpecApp: the handlers PostEntry, PostComment and GetInitialize over the *)
(* two windows.  main has run commentCache.Init() and entryCache.Init()    *)
(* over the rows the Store starts with.                                    *)
(***************************************************************************)
AppInit ==
    /\ clock = 0
    /\ lastOp = NoOp
    /\ entries2 = {EntryRow(i, 0) : i \in 1..BaseIds}
    /\ comments = {CommentRow(i, 0) : i \in 1..BaseIds}
    /\ nextEntryId = BaseIds + 1
    /\ nextCommentId = BaseIds + 1
    /\ \E rows \in QueryRecent(entries2, WindowCap) :
          entryCache_Recent = ReverseInPlace(rows)
    /\ \E rows \in QueryRecent(comments, WindowCap) :
          commentCache_Recent = ReverseInPlace(rows)
    /\ entryBase = entryCache_Recent
    /\ entryLog = <<>>
    /\ commentBase = commentCache_Recent
    /\ commentLog = <<>>
    /\ underTest = "handlers"
    /\ FriendIdle
    /\ FootIdle
    /\ UserIdle
    /\ AppIdle
    /\ ProfileIdle
    /\ SliceIdle
    /\ IndexIdle
    /\ LockIdle
    /\ PageIdle

AppNext ==
    \/ Tick /\ UNCHANGED <<windowVars, friendVars, footVars, userVars, appVars, profileVars, sliceVars, indexVars, lockVars, pageVars>>
    \/ PostEntry /\ UNCHANGED <<friendVars, footVars, userVars, profileVars, sliceVars, indexVars, lockVars, pageVars>>
    \/ \E p \in AppProcs :
          PostComment_Exec(p) /\ UNCHANGED <<friendVars, footVars, userVars, profileVars, sliceVars, indexVars, lockVars, pageVars>>
    \/ \E p \in AppProcs :
          PostComment_Now(p) /\ UNCHANGED <<friendVars, footVars, userVars, profileVars, sliceVars, indexVars, lockVars, pageVars>>
    \/ \E p \in AppProcs :
          PostComment_Insert(p) /\ UNCHANGED <<friendVars, footVars, userVars, profileVars, sliceVars, indexVars, lockVars, pageVars>>
    \/ GetInitialize_DeleteEntries /\ UNCHANGED <<friendVars, footVars, userVars, profileVars, sliceVars, indexVars, lockVars, pageVars>>
    \/ GetInitialize_DeleteComments /\ UNCHANGED <<friendVars, footVars, userVars, profileVars, sliceVars, indexVars, lockVars, pageVars>>
    \/ GetInitialize_CommentCacheInit /\ UNCHANGED <<friendVars, footVars, userVars, profileVars, sliceVars, indexVars, lockVars, pageVars>>
    \/ GetInitialize_EntryCacheInit /\ UNCHANGED <<friendVars, footVars, userVars, profileVars, sliceVars, indexVars, lockVars, pageVars>>

SpecApp == AppInit /\ [][AppNext]_vars

(***************************************************************************)
(* Claims about userRepo (SpecUser) and about the handlers (SpecApp).      *)
(***************************************************************************)
\* C7 (Mirror secondary-index consistency): after UserRepo.Init, for every
\* loaded user u, whatever its id, GetByMail(u.Email) and
\* GetByAccount(u.AccountName) return the record Get(u.ID) returns, and that
\* record is u.
C7_IndexConsistency ==
    userLock = "free" =>
        \A u \in usersTable :
            /\ UserRepo_Get(u.ID) = u
            /\ UserRepo_GetByMail(u.Email) = UserRepo_Get(u.ID)
            /\ UserRepo_GetByAccount(u.AccountName) = UserRepo_Get(u.ID)

\* C8 (Incremental update of the recent-entries window): when PostEntry has
\* written the new entry to the Store and returned, the entry is the tail of
\* entryCache.Get().
C8_EntryVisible ==
    lastOp.op = "PostEntry" =>
        /\ entryCache_Recent # <<>>
        /\ Last(entryCache_Recent).ID = lastOp.id

\* C10 (Chronological order of the window): in every reachable state the items
\* of each window are in ascending order of creation time, front to tail.
Ascending(recent) ==
    \A i, j \in 1..Len(recent) : i < j => recent[i].CreatedAt <= recent[j].CreatedAt

C10_Chronological ==
    /\ Ascending(entryCache_Recent)
    /\ Ascending(commentCache_Recent)

(***************************************************************************)
(* Claims about the two mirrors (SpecMirror, SpecFault).                   *)
(***************************************************************************)
\* C11 (Profile mirror eventually consistent): once every PostProfile call has
\* returned (and no Init is running), ProfileRepo.Get(id) is the row the Store
\* holds for id.
C11_EventuallyConsistent ==
    (/\ \A p \in ProfProcs : profProc[p].pc \in {"idle", "done"}
     /\ profLock = "free")
    => \A id \in DOMAIN profiles : MapGetProfile(profileRepo, id) = profiles[id]

\* The mirror a complete load of the users table builds.
FullUsers == LoadUsers(EmptyRepo, usersTable)

C16_FailedInitNeverServed ==
    lastOp.op = "ProfileRepo.Get" => ~initProfile.failed

(***************************************************************************)
(* Claim about the windows as slices, under SpecSlice.                     *)
(***************************************************************************)
\* C15 (Snapshot stability of Get): the elements 0..len-1 of a slice a caller
\* got from Get() are never changed by a later Insert, trim or Init.
C15_SnapshotStable ==
    \A r \in SliceReaders :
        snap[r].held => View(heap, snap[r].hdr) = snap[r].seen

\* An Insert has just appended in place into the array a reader's slice lies
\* on, and the window has been re-sliced past the front of the reader's slice.
C15_Witness ==
    /\ lastOp.op = "Window.Insert"
    /\ lastOp.inPlace
    /\ \E r \in SliceReaders :
          /\ snap[r].held
          /\ snap[r].hdr.arr = recentHdr.arr
          /\ snap[r].hdr.len = WindowCap
          /\ snap[r].hdr.off < recentHdr.off

(***************************************************************************)
(* Claims about the lists GetIndex builds, under SpecIndex.                *)
(***************************************************************************)
FirstN(s, n) == SubSeq(s, 1, IF Len(s) < n THEN Len(s) ELSE n)

\* The predicate of the friend-entries list: the author is a friend of the viewer.
EntryMatches(e) == IsFriend(friend, indexUser, e.UserID)

\* The predicate of the friend-comments list: the author is a friend of the
\* viewer and, if the comment's entry is private, the viewer owns the entry or
\* is a friend of its owner.
CommentMatches(c) ==
    /\ IsFriend(friend, indexUser, c.UserID)
    /\ c.private => \/ indexUser = c.EntryOwnerID
                    \/ IsFriend(friend, indexUser, c.EntryOwnerID)

\* C19 (Read-side filtering): for a window snapshot and a viewer, each list
\* GetIndex builds is the first IndexLimit elements of the snapshot traversed
\* from tail to front and filtered by the list's predicate; it is shorter than
\* IndexLimit only when the whole window holds fewer than IndexLimit matches.
C19_ReadSideFiltering ==
    /\ getIndex.pc \in {"comments", "render"} =>
          /\ entriesOfFriends =
                FirstN(SelectSeq(Reverse(recentEntries), EntryMatches), IndexLimit)
          /\ Len(entriesOfFriends) < IndexLimit =>
                Len(SelectSeq(recentEntries, EntryMatches)) < IndexLimit
    /\ getIndex.pc = "render" =>
          /\ commentsOfFriends =
                FirstN(SelectSeq(Reverse(cc), CommentMatches), IndexLimit)
          /\ Len(commentsOfFriends) < IndexLimit =>
                Len(SelectSeq(cc, CommentMatches)) < IndexLimit

\* The comment list is complete; the newest comment is by a friend on a private
\* entry the viewer may not see, and the window holds more matches than the
\* list takes.
C19_Witness ==
    /\ getIndex.pc = "render"
    /\ Len(cc) >= 1
    /\ IsFriend(friend, indexUser, cc[Len(cc)].UserID)
    /\ cc[Len(cc)].private
    /\ ~CommentMatches(cc[Len(cc)])
    /\ Len(SelectSeq(cc, CommentMatches)) > IndexLimit
    /\ Len(commentsOfFriends) = IndexLimit

(***************************************************************************)
(* Claims about PostComment's permission check, under SpecPrivacy.         *)
(***************************************************************************)
\* C21 (Private-entry comment permission): PostComment writes a comment to the
\* Store and inserts it into the recent-comments window for a private entry only
\* when the commenting user is the entry's owner or a friend of the owner; when
\* the permission check fails, neither the Store nor commentCache is modified.
C21_PrivateCommentPermission ==
    /\ \A c \in comments : \A e \in entries2 :
          (e.ID = c.entry_id /\ e.Private) =>
             (c.user_id = e.UserID \/ IsFriend(friend, c.user_id, e.UserID))
    /\ \A i \in 1..Len(commentCache_Recent) :
          LET c == commentCache_Recent[i]
          IN  c.private =>
                 (c.UserID = c.EntryOwnerID \/ IsFriend(friend, c.UserID, c.EntryOwnerID))
    /\ lastOp.op \in {"PostComment.DbExec", "PostComment.CacheInsert"} =>
          ~lastOp.denied

(***************************************************************************)
(* Claims about the recent-comments window under the handlers and a reset, *)
(* under SpecApp.                                                          *)
(***************************************************************************)
\* C23 (No duplicates in the recent-comments window): for any interleaving of
\* PostComment handlers (Store insert, then commentCache.Insert) with
\* commentCache.Init during an administrative reset, no comment id occurs more
\* than once in the window.
C23_NoDuplicates ==
    \A i, j \in 1..Len(commentCache_Recent) :
       i # j => commentCache_Recent[i].ID # commentCache_Recent[j].ID

(***************************************************************************)
(* Claims about the locks of the cache layer, under SpecLocks.             *)
(***************************************************************************)
\* C24 (Deadlock freedom of the cache layer): no cache operation acquires a
\* cache lock while holding one, another cache's or its own; every lock
\* acquired is released on every path, a panic on a Store error included (a
\* lock is held only by a handler inside the critical section that took it);
\* and under fair scheduling and a responsive Store every cache call of every
\* handler eventually returns.
C24_DeadlockFree ==
    /\ [](\A p \in LockProcs :
            /\ Cardinality(HeldBy(p)) <= 1
            /\ call[p].pc \in {"idle", "wait"} => HeldBy(p) = {}
            /\ call[p].pc = "cs" =>
                  HeldBy(p) = IF SegOf(p).lock = "none" THEN {} ELSE {SegOf(p).cache})
    /\ \A p \in LockProcs : (call[p].pc # "idle") ~> (call[p].pc = "idle")

\* A call has just panicked on a Store error inside its critical section; its
\* lock is free again and another handler, blocked on it, can take it.
C24_Witness ==
    /\ lastOp.op = "Cache.Panic"
    /\ call[lastOp.p] = Idle
    /\ mutex[lastOp.cache] = Unlocked
    /\ \E q \in LockProcs :
          /\ call[q].pc = "wait"
          /\ SegOf(q).cache = lastOp.cache
          /\ SegOf(q).lock = "Lock"

(***************************************************************************)
(* Claims about the footprint list the pages show, under SpecPage.         *)
(***************************************************************************)
\* C25: slicing the footprint list for a page is safe for every number n of
\* fetched groups from 0 up to the fetch limit: the request does not fail,
\* the footprints page shows exactly the n groups fetched, and the index
\* page shows exactly the first min(n, index size) of them; no page shows an
\* element that was never fetched.
C25_SlicingSafe ==
    /\ lastOp.op = "GetFootprints" =>
          /\ lastOp.shown # SlicePanic
          /\ lastOp.shown = lastOp.fetched
    /\ lastOp.op = "GetIndex" =>
          /\ lastOp.shown # SlicePanic
          /\ lastOp.shown = FirstN(lastOp.fetched, IndexTake)

====
